---- MODULE Spec2Model ----
(***************************************************************************)
(* Session manager and JSON record store of src/index.js.                  *)
(*                                                                         *)
(* Scheduling model.  The program is one Node.js process: a callback runs  *)
(* to completion, and an async function is suspended only where it awaits  *)
(* something the event loop has to deliver: file I/O (fs.readFile,         *)
(* fs.writeFile), a network call (Telegram API, statusBedrock), or a       *)
(* timer (setTimeout).  One action of this module is one such turn: the    *)
(* delivery of what a task was waiting for, followed by that task's code   *)
(* up to its next suspension.  A caller that finds a table lock taken      *)
(* sleeps on setTimeout(50) (acquireLock, line 39), so it looks at the     *)
(* lock again only in a turn of its own (AcquireLockPoll).  Two store calls *)
(* that follow each other with nothing but promise continuations between   *)
(* them (the find and the writeDb inside Servers.updateOne, create and     *)
(* deleteOne and inside reorderServers; findById then updateOne in a       *)
(* handler) are therefore not separated by another caller: releaseLock in  *)
(* the first call's finally and the test-and-set of acquireLock in the     *)
(* second run in the same turn (GoDb).  Other operations get in where the  *)
(* code awaits the network or a timer (GoNet, RestartFire).                *)
(*                                                                         *)
(* File I/O can fail in the store operations of SpecStore (IoError); the   *)
(* session manager's specifications take its file I/O to succeed.          *)
(*                                                                         *)
(* Statuses are the source's Arabic string literals under the names the    *)
(* specification gives them: Stopped (lines 538, 810, 890), Searching      *)
(* (743), Connecting (772), Active (828), Reconnecting (807), Unsupported  *)
(* (765), ConnectFailed (853), Unknown (2314).                             *)
(***************************************************************************)
EXTENDS Naturals, Integers, Sequences, FiniteSets, TLC

\* ------------------------------------------------------------- bounds
MaxTasks == 2          \* async operations in flight at once
MaxIds == 2            \* distinct record ids crypto.randomBytes hands out
MaxConns == 2          \* watcher connections that exist at once

TaskIds == 1..MaxTasks
Ids == 1..MaxIds                \* the ids Servers.create draws
SeedA == MaxIds + 1             \* ids of records that exist when the process starts
SeedB == MaxIds + 2
SeedC == MaxIds + 3
AllIds == 1..(MaxIds + 3)
ConnIds == 1..MaxConns
Protocols == {1, 2}             \* protocol ids a probed server may report
Owners == {1, 2}
Addrs == {1, 2}
ServersFile == "servers.json"
VersionsFile == "versions.json"
UsersFile == "users.json"
ConfigFile == "config.json"
Files == {ServersFile, VersionsFile, UsersFile, ConfigFile}

VARIABLES
    dbLocks,        \* dbLocks (line 34): file -> locked?
    disk,           \* data/*.json: file -> [st, data]
    activeClients,  \* activeClients (line 174): server id -> connection, 0 = no entry
    conns,          \* the bedrock clients createClient has returned
    timers,         \* pending setTimeout(startBedrockBot, 30000) callbacks, in firing order
    tasks,          \* the async operations in flight
    usedIds,        \* record ids already handed out
    stopped,        \* history, not program state: the endpoints whose owner's last command
                    \* in effect is stop (set by stopBot's write, cleared by a start that
                    \* passes its presence check and by a toggle that writes)
    userCache,      \* userCache (line 95): key -> entry
    subscriptionCache,  \* subscriptionCache (line 96): key -> entry
    now,            \* Date.now(), in milliseconds
    got             \* the cache call of the last step: setToCache with its arguments, or
                    \* getFromCache with its arguments and what it returned (NoGot after
                    \* a step of the clock)

vars == <<dbLocks, disk, activeClients, conns, timers, tasks, usedIds, stopped,
          userCache, subscriptionCache, now, got>>

\* ------------------------------------------------------------- records
NoServer == [id |-> 0, userId |-> 0, serverName |-> 0, addr |-> 0,
             status |-> "none", notifyOnError |-> FALSE, autoRestart |-> FALSE]

\* Servers.create, lines 536-543: the defaults of a new record.
NewServer(id, uid, name, addr) ==
    [id |-> id, userId |-> uid, serverName |-> name, addr |-> addr,
     status |-> "Stopped", notifyOnError |-> TRUE, autoRestart |-> FALSE]

Idle == [op |-> "none", pc |-> "idle", at |-> "idle", file |-> "none", sid |-> 0,
         uid |-> 0, addr |-> 0, flag |-> FALSE, snap |-> <<>>, buf |-> <<>>,
         vers |-> {}, proto |-> 0, ctx |-> FALSE, seen |-> {},
         lang |-> 0, chan |-> 0, chans |-> <<>>, todo |-> <<>>, caller |-> "none",
         kind |-> "none"]

\* An operation that has returned (at = "ret"): what it was, and in pc the signal it
\* gave its caller.
Finished(t, sig) == [Idle EXCEPT !.op = tasks[t].op, !.sid = tasks[t].sid, !.uid = tasks[t].uid,
                                 !.pc = sig, !.at = "ret"]

\* ------------------------------------------------------------- lock
\* acquireLock's loop condition, line 38 (LockBusyNever: a lock nobody waits for).
LockBusyNever(L, f) == FALSE
LockBusy(L, f) == L[f]

\* releaseLock, lines 45-47.
releaseLock(L, f) == [L EXCEPT ![f] = FALSE]

\* The finally blocks of readDb and writeDb, lines 75-77 and 89-91
\* (FinallyOnlyOnSuccess: a release at the end of the try block instead).
FinallyOnlyOnSuccess(L, f, ok) == IF ok THEN releaseLock(L, f) ELSE L
Finally(L, f, ok) == releaseLock(L, f)

\* acquireLock called with the lock table L: the lock is taken at once when it is
\* free (lines 38, 41), else the caller sleeps and polls.
\* acquireLockNoSet: acquireLock without line 41.
acquireLockNoSet(L, f) == [locks |-> L, at |-> IF LockBusy(L, f) THEN "lock" ELSE "io"]
acquireLock(L, f) ==
    IF LockBusy(L, f) THEN [locks |-> L, at |-> "lock"]
    ELSE [locks |-> [L EXCEPT ![f] = TRUE], at |-> "io"]

\* readDb's result, lines 52-74: the parsed content, or the default of a missing
\* or malformed file.
DefaultOf(f) == <<>>
ReadResult(f) == IF disk[f].st = "ok" THEN disk[f].data ELSE DefaultOf(f)

\* readDb in full, lines 50-78.  fs.readFile and JSON.parse succeed (st = "ok"),
\* fail with ENOENT ("missing") or a SyntaxError ("malformed"), or fail with any
\* other error ("unreadable").  The value returned is a list or a document with
\* its members in items; config.json holds a document, the other files a list.
JsonKind(f) == IF f = ConfigFile THEN "document" ELSE "list"
\* Lines 56 and 65 (RecoversMissingOnly: without the SyntaxError branch).
RecoversMissingOnly(st) == st = "missing"
Recovers(st) == st \in {"missing", "malformed"}
readDb(f) ==
    IF disk[f].st = "ok" THEN [thrown |-> FALSE, kind |-> JsonKind(f), items |-> disk[f].data]
    ELSE IF Recovers(disk[f].st) THEN [thrown |-> FALSE, kind |-> JsonKind(f), items |-> DefaultOf(f)]
    ELSE [thrown |-> TRUE, kind |-> "none", items |-> <<>>]

\* ------------------------------------------------------------- table helpers
RECURSIVE FindIndex(_, _, _)
FindIndex(s, id, i) ==
    IF i > Len(s) THEN 0 ELSE IF s[i].id = id THEN i ELSE FindIndex(s, id, i + 1)

\* Servers.findById, lines 526-529 (NoServer is null).
findById(s, id) == LET i == FindIndex(s, id, 1) IN IF i = 0 THEN NoServer ELSE s[i]

Merge(rec, patch) == [k \in DOMAIN rec |-> IF k \in DOMAIN patch THEN patch[k] ELSE rec[k]]

\* Servers.updateOne, lines 548-557: the array it hands to writeDb.
UpdateOne(s, id, patch) ==
    LET i == FindIndex(s, id, 1) IN IF i = 0 THEN s ELSE [s EXCEPT ![i] = Merge(s[i], patch)]

Matches(r, id, uid) == r.id = id /\ r.userId = uid
\* Servers.deleteOne, lines 558-566, for the query {_id, userId}.
DeleteOne(s, id, uid) == SelectSeq(s, LAMBDA r : ~Matches(r, id, uid))

OfOwner(s, uid) == SelectSeq(s, LAMBDA r : r.userId = uid)
NotOfOwner(s, uid) == SelectSeq(s, LAMBDA r : r.userId # uid)

RECURSIVE Insert(_, _)
Insert(r, s) ==
    IF s = <<>> THEN <<r>>
    ELSE IF r.id < Head(s).id THEN <<r>> \o s ELSE <<Head(s)>> \o Insert(r, Tail(s))
RECURSIVE SortById(_)
\* userServers.sort((a, b) => a._id.localeCompare(b._id)), line 697.
SortById(s) == IF s = <<>> THEN <<>> ELSE Insert(Head(s), SortById(Tail(s)))

Renamed(s) == [i \in 1..Len(s) |-> [s[i] EXCEPT !.serverName = i]]

\* reorderServers, lines 693-704: the merged array it hands to writeDb
\* (ReorderOnlyOwner: the version the comment of lines 690-692 speaks of;
\* ReorderUnsorted: without line 697).
ReorderOnlyOwner(s, uid) == Renamed(SortById(OfOwner(s, uid)))
ReorderUnsorted(s, uid) == NotOfOwner(s, uid) \o Renamed(OfOwner(s, uid))
Reorder(s, uid) == NotOfOwner(s, uid) \o Renamed(SortById(OfOwner(s, uid)))

\* ------------------------------------------------------------- tasks
\* The lowest free slot (0: none): an operation that starts takes it.
FreeSlot == IF \E t \in TaskIds : tasks[t].at = "idle"
            THEN CHOOSE t \in TaskIds : tasks[t].at = "idle" /\ \A u \in TaskIds : tasks[u].at = "idle" => t <= u
            ELSE 0

\* The lock table once task t's pending store call has returned (its finally ran).
Unlocked(t) == IF tasks[t].at = "io" THEN Finally(dbLocks, tasks[t].file, TRUE) ELSE dbLocks

\* Task t goes on to readDb/writeDb on file g, to resume at label pc.
GoDb(t, rec, g, pc) ==
    LET e == acquireLock(Unlocked(t), g) IN
    /\ dbLocks' = e.locks
    /\ tasks' = [tasks EXCEPT ![t] = [rec EXCEPT !.pc = pc, !.at = e.at, !.file = g]]

\* Task t goes on to await a network call, to resume at label pc.
GoNet(t, rec, pc) ==
    /\ dbLocks' = Unlocked(t)
    /\ tasks' = [tasks EXCEPT ![t] = [rec EXCEPT !.pc = pc, !.at = "net", !.file = "none"]]

\* Task t returns to its caller with signal sig.
GoDone(t, sig) ==
    /\ dbLocks' = Unlocked(t)
    /\ tasks' = [tasks EXCEPT ![t] = Finished(t, sig)]

\* A new operation starts with a store call on file g.
StartDb(rec, g, pc) ==
    LET t == FreeSlot
        e == acquireLock(dbLocks, g) IN
    /\ t # 0
    /\ dbLocks' = e.locks
    /\ tasks' = [tasks EXCEPT ![t] = [rec EXCEPT !.pc = pc, !.at = e.at, !.file = g]]

At(t, pc) == tasks[t].pc = pc /\ tasks[t].at = "io"

\* parseInt of the port message, line 1021, is a finite number (Addrs), NaN (rejected
\* at line 1023) or, for a text of more than 308 digits, Infinity.
Infinity == 1000
\* JSON.stringify, line 85, writes null for a number that is not finite; every other
\* value a record holds (finite numbers, strings, booleans) is read back as written.
JsonNull == 1001
Stringify(v) == IF v = Infinity THEN JsonNull ELSE v
ToJson(buf) == [i \in 1..Len(buf) |-> [buf[i] EXCEPT !.addr = Stringify(@)]]

\* writeDb, lines 84-85: the file holds JSON.stringify(data).
Written(buf) == [disk EXCEPT ![ServersFile] = [st |-> "ok", data |-> ToJson(buf)]]

\* acquireLock, lines 38-41: a sleeping caller wakes, finds the lock free and takes it.
AcquireLockPoll(t) ==
    /\ tasks[t].at = "lock"
    /\ ~LockBusy(dbLocks, tasks[t].file)
    /\ dbLocks' = [dbLocks EXCEPT ![tasks[t].file] = TRUE]
    /\ tasks' = [tasks EXCEPT ![t].at = "io"]
    /\ UNCHANGED <<disk, activeClients, conns, timers, usedIds, stopped, userCache, subscriptionCache, now, got>>

\* The caller has its answer; the slot is free again.
Return(t) ==
    /\ tasks[t].at = "ret"
    /\ tasks' = [tasks EXCEPT ![t] = Idle]
    /\ UNCHANGED <<dbLocks, disk, activeClients, conns, timers, usedIds, stopped, userCache, subscriptionCache, now, got>>

Returned(t, op, sig) == tasks[t].at = "ret" /\ tasks[t].op = op /\ tasks[t].pc = sig

StoreOps == {"wizard", "delete", "toggle"}

\* readDb lines 72-73, writeDb lines 86-87: fs fails with an error that is neither
\* ENOENT nor a SyntaxError; the error is rethrown and ends the calling handler.
IoError(t) ==
    /\ tasks[t].at = "io"
    /\ tasks[t].op \in StoreOps
    /\ dbLocks' = Finally(dbLocks, tasks[t].file, FALSE)
    /\ tasks' = [tasks EXCEPT ![t] = Finished(t, "store_error")]
    /\ UNCHANGED <<disk, activeClients, conns, timers, usedIds, stopped, userCache, subscriptionCache, now, got>>

\* ------------------------------------------------------------- reorderServers
\* reorderServers, line 693: Servers.find() returned.
ReorderRead(t) ==
    /\ At(t, "ro_r")
    /\ LET all == ReadResult(ServersFile) IN
       GoDb(t, [tasks[t] EXCEPT !.snap = all, !.buf = Reorder(all, tasks[t].uid)], ServersFile, "ro_w")
    /\ UNCHANGED <<disk, activeClients, conns, timers, usedIds, stopped, userCache, subscriptionCache, now, got>>

\* reorderServers, line 707: writeDb returned.
ReorderWrite(t) ==
    /\ At(t, "ro_w")
    /\ disk' = Written(tasks[t].buf)
    /\ GoDone(t, IF tasks[t].op = "wizard" THEN "added" ELSE "deleted")
    /\ UNCHANGED <<activeClients, conns, timers, usedIds, stopped, userCache, subscriptionCache, now, got>>

\* ------------------------------------------------------------- addServerWizard, step 3
MaxServersPerUser == 3

\* Lines 1027-1033: the port message arrived; Servers.countDocuments is called.
\* id is the value crypto.randomBytes will return at line 537.
AddServer(uid, addr, id) ==
    /\ id \notin usedIds
    /\ usedIds' = usedIds \cup {id}
    /\ StartDb([Idle EXCEPT !.op = "wizard", !.uid = uid, !.addr = addr, !.sid = id], ServersFile, "wz_count")
    /\ UNCHANGED <<disk, activeClients, conns, timers, stopped, userCache, subscriptionCache, now, got>>

\* Lines 1033-1045: the count returned.
WizardCount(t) ==
    /\ At(t, "wz_count")
    /\ IF Len(OfOwner(ReadResult(ServersFile), tasks[t].uid)) >= MaxServersPerUser
       THEN GoDone(t, "max_servers")
       ELSE GoDb(t, tasks[t], ServersFile, "wz_dupown")
    /\ UNCHANGED <<disk, activeClients, conns, timers, usedIds, stopped, userCache, subscriptionCache, now, got>>

\* Lines 1041-1055: the owner's own duplicate was looked up.
WizardDupOwn(t) ==
    /\ At(t, "wz_dupown")
    /\ IF \E i \in 1..Len(ReadResult(ServersFile)) :
             /\ ReadResult(ServersFile)[i].addr = tasks[t].addr
             /\ ReadResult(ServersFile)[i].userId = tasks[t].uid
       THEN GoDone(t, "already_added")
       ELSE GoDb(t, tasks[t], ServersFile, "wz_dupother")
    /\ UNCHANGED <<disk, activeClients, conns, timers, usedIds, stopped, userCache, subscriptionCache, now, got>>

\* Lines 1052-1062: anybody's duplicate was looked up; Servers.create is called.
WizardDupOther(t) ==
    /\ At(t, "wz_dupother")
    /\ IF \E i \in 1..Len(ReadResult(ServersFile)) : ReadResult(ServersFile)[i].addr = tasks[t].addr
       THEN GoDone(t, "added_by_other")
       ELSE GoDb(t, tasks[t], ServersFile, "wz_create_r")
    /\ UNCHANGED <<disk, activeClients, conns, timers, usedIds, stopped, userCache, subscriptionCache, now, got>>

\* Servers.create, lines 535-545: find() returned; the record is pushed and written.
CreateRead(t) ==
    /\ At(t, "wz_create_r")
    /\ LET all == ReadResult(ServersFile) IN
       GoDb(t, [tasks[t] EXCEPT !.snap = all,
                                !.buf = Append(all, NewServer(tasks[t].sid, tasks[t].uid, 0, tasks[t].addr))],
            ServersFile, "wz_create_w")
    /\ UNCHANGED <<disk, activeClients, conns, timers, usedIds, stopped, userCache, subscriptionCache, now, got>>

\* Servers.create, line 545, then reorderServers, line 1070.
CreateWrite(t) ==
    /\ At(t, "wz_create_w")
    /\ disk' = Written(tasks[t].buf)
    /\ GoDb(t, [tasks[t] EXCEPT !.snap = <<>>, !.buf = <<>>], ServersFile, "ro_r")
    /\ UNCHANGED <<activeClients, conns, timers, usedIds, stopped, userCache, subscriptionCache, now, got>>

\* ------------------------------------------------------------- toggle_autorestart
\* Line 1986: answerCbQuery returned; Servers.findById is called.
ToggleAutoRestart(sid) ==
    /\ StartDb([Idle EXCEPT !.op = "toggle", !.sid = sid], ServersFile, "tg_find")
    /\ UNCHANGED <<disk, activeClients, conns, timers, usedIds, stopped, userCache, subscriptionCache, now, got>>

\* Line 1986: findById returned s; s._id of null throws.
ToggleFound(t) ==
    /\ At(t, "tg_find")
    /\ LET s == findById(ReadResult(ServersFile), tasks[t].sid) IN
       IF s = NoServer THEN GoDone(t, "threw")
       ELSE GoDb(t, [tasks[t] EXCEPT !.flag = s.autoRestart], ServersFile, "tg_r")
    /\ UNCHANGED <<disk, activeClients, conns, timers, usedIds, stopped, userCache, subscriptionCache, now, got>>

\* Servers.updateOne, lines 549-555, with {autoRestart: !s.autoRestart}.
ToggleRead(t) ==
    /\ At(t, "tg_r")
    /\ LET all == ReadResult(ServersFile) IN
       IF FindIndex(all, tasks[t].sid, 1) = 0 THEN GoDone(t, "toggled")
       ELSE GoDb(t, [tasks[t] EXCEPT !.snap = all,
                        !.buf = UpdateOne(all, tasks[t].sid, [autoRestart |-> ~tasks[t].flag])],
                 ServersFile, "tg_w")
    /\ UNCHANGED <<disk, activeClients, conns, timers, usedIds, stopped, userCache, subscriptionCache, now, got>>

ToggleWrite(t) ==
    /\ At(t, "tg_w")
    /\ disk' = Written(tasks[t].buf)
    /\ GoDone(t, "toggled")
    /\ stopped' = stopped \ {tasks[t].sid}
    /\ UNCHANGED <<activeClients, conns, timers, usedIds, userCache, subscriptionCache, now, got>>

\* ------------------------------------------------------------- delete_do
\* Lines 2013-2016 when no session exists: Servers.deleteOne is called.
DeleteDo(uid, sid) ==
    /\ activeClients[sid] = 0
    /\ StartDb([Idle EXCEPT !.op = "delete", !.uid = uid, !.sid = sid], ServersFile, "dl_r")
    /\ UNCHANGED <<disk, activeClients, conns, timers, usedIds, stopped, userCache, subscriptionCache, now, got>>

\* Servers.deleteOne, lines 559-566: find() returned; a shorter array is written.
DeleteRead(t) ==
    /\ At(t, "dl_r")
    /\ LET all == ReadResult(ServersFile)
           kept == DeleteOne(all, tasks[t].sid, tasks[t].uid) IN
       IF Len(kept) < Len(all)
       THEN GoDb(t, [tasks[t] EXCEPT !.snap = all, !.buf = kept], ServersFile, "dl_w")
       ELSE GoDb(t, tasks[t], ServersFile, "ro_r")
    /\ UNCHANGED <<disk, activeClients, conns, timers, usedIds, stopped, userCache, subscriptionCache, now, got>>

\* Servers.deleteOne, line 563, then reorderServers, line 2019.
DeleteWrite(t) ==
    /\ At(t, "dl_w")
    /\ disk' = Written(tasks[t].buf)
    /\ GoDb(t, [tasks[t] EXCEPT !.snap = <<>>, !.buf = <<>>], ServersFile, "ro_r")
    /\ UNCHANGED <<activeClients, conns, timers, usedIds, stopped, userCache, subscriptionCache, now, got>>

\* ------------------------------------------------------------- connections
NoConn == [sid |-> 0, state |-> "none", listeners |-> FALSE, vers |-> {}, auto |-> FALSE]

FreeConn == IF \E c \in ConnIds : conns[c].state = "none"
            THEN CHOOSE c \in ConnIds : conns[c].state = "none" /\ \A d \in ConnIds : conns[d].state = "none" => c <= d
            ELSE 0

\* Connections that exist or that an operation in flight, a disconnect handler that
\* has not decided yet, or a pending timer may open.
Planned == Cardinality({c \in ConnIds : conns[c].state # "none"})
           + Cardinality({t \in TaskIds : tasks[t].op \in {"start", "restart"} /\ tasks[t].at # "ret"})
           + Cardinality({t \in TaskIds : tasks[t].pc \in {"hd_find", "hd_rc_r", "hd_rc_w"}})
           + Len(timers)

\* getSupportedVersions, lines 711-723: the protocol ids that have a bedrock name.
getSupportedVersions(data) == {data[i].protocol : i \in {j \in 1..Len(data) : data[j].type = "bedrock"}}

\* bedrock.createClient, activeClients.set and the listeners, lines 783-848.
\* The result is <<conns', activeClients'>>.
Register(sid, v, a) ==
    LET c == FreeConn IN
    <<[conns EXCEPT ![c] = [sid |-> sid, state |-> "open", listeners |-> TRUE, vers |-> v, auto |-> a]],
      [activeClients EXCEPT ![sid] = c]>>

\* stopBot, lines 893-901: the teardown of the session, if there is one.
\* The result is <<conns', activeClients'>>.
Teardown(sid) ==
    IF activeClients[sid] # 0
    THEN <<[conns EXCEPT ![activeClients[sid]] = NoConn], [activeClients EXCEPT ![sid] = 0]>>
    ELSE <<conns, activeClients>>

AtNet(t, pc) == tasks[t].pc = pc /\ tasks[t].at = "net"

\* Servers.updateOne(status) as the two store calls it is: the read ...
StatusRead(t, status) ==
    LET all == ReadResult(ServersFile) IN
    [tasks[t] EXCEPT !.snap = all, !.buf = UpdateOne(all, tasks[t].sid, [status |-> status])]
Found(t) == FindIndex(ReadResult(ServersFile), tasks[t].sid, 1) # 0
Cleared(t) == [tasks[t] EXCEPT !.snap = <<>>, !.buf = <<>>]

\* ------------------------------------------------------------- startBot
\* Line 1984: start_bot pressed; startBot calls Servers.findById, line 726.
StartBot(sid) ==
    /\ Planned < MaxConns
    /\ StartDb([Idle EXCEPT !.op = "start", !.sid = sid, !.ctx = TRUE], ServersFile, "sb_find")
    /\ UNCHANGED <<disk, activeClients, conns, timers, usedIds, stopped, userCache, subscriptionCache, now, got>>

\* Lines 727-743: the record came back; not found, already running, or updateOne(Searching).
\* Line 736: activeClients.has (HasSessionNever: without that test).
HasSessionNever(sid) == FALSE
HasSession(sid) == activeClients[sid] # 0

\* Line 727: !server (MissingNever: without that test).
MissingNever(r) == FALSE
Missing(r) == r = NoServer

StartFound(t) ==
    /\ At(t, "sb_find")
    /\ IF Missing(findById(ReadResult(ServersFile), tasks[t].sid)) THEN GoDone(t, "not_found")
       ELSE IF HasSession(tasks[t].sid) THEN GoDone(t, "already_running")
       ELSE GoDb(t, [tasks[t] EXCEPT !.flag = findById(ReadResult(ServersFile), tasks[t].sid).autoRestart],
                 ServersFile, "sb_r")
    /\ stopped' = IF findById(ReadResult(ServersFile), tasks[t].sid) # NoServer /\ ~HasSession(tasks[t].sid)
                  THEN stopped \ {tasks[t].sid} ELSE stopped
    /\ UNCHANGED <<disk, activeClients, conns, timers, usedIds, userCache, subscriptionCache, now, got>>

StartSearchingRead(t) ==
    /\ At(t, "sb_r")
    /\ IF Found(t) THEN GoDb(t, StatusRead(t, "Searching"), ServersFile, "sb_w")
       ELSE GoNet(t, tasks[t], "sb_edit")
    /\ UNCHANGED <<disk, activeClients, conns, timers, usedIds, stopped, userCache, subscriptionCache, now, got>>

\* Lines 743-746: Searching is written; editMessageText is awaited.
StartSearchingWrite(t) ==
    /\ At(t, "sb_w")
    /\ disk' = Written(tasks[t].buf)
    /\ GoNet(t, Cleared(t), "sb_edit")
    /\ UNCHANGED <<activeClients, conns, timers, usedIds, stopped, userCache, subscriptionCache, now, got>>

\* Line 748: getSupportedVersions reads versions.json.
StartVersions(t) ==
    /\ AtNet(t, "sb_edit")
    /\ GoDb(t, tasks[t], VersionsFile, "sb_vers")
    /\ UNCHANGED <<disk, activeClients, conns, timers, usedIds, stopped, userCache, subscriptionCache, now, got>>

\* Lines 748-760: the catalog came back; startBedrockBot is called and probes.
StartProbe(t) ==
    /\ At(t, "sb_vers")
    /\ GoNet(t, [tasks[t] EXCEPT !.vers = getSupportedVersions(ReadResult(VersionsFile))], "bb_probe")
    /\ UNCHANGED <<disk, activeClients, conns, timers, usedIds, stopped, userCache, subscriptionCache, now, got>>

\* ------------------------------------------------------------- startBedrockBot
\* Lines 762-764: versions.bedrock[protocolVersion] is a name (the resolver's hit;
\* ResolvesAnything: without the test of line 764).
ResolvesAnything(v, r) == TRUE
Resolves(v, r) == r \in v

\* The catch block, lines 850-853: the map entry of the endpoint is deleted and
\* updateOne(ConnectFailed) is called.
Catch(t) ==
    /\ activeClients' = [activeClients EXCEPT ![tasks[t].sid] = 0]
    /\ GoDb(t, Cleared(t), ServersFile, "bb_fail_r")

\* Lines 760-772 and 850-853: statusBedrock returned protocol r, or threw (r = 0:
\* a timeout, a transport error, a malformed answer).
ProbeResult(t, r) ==
    /\ AtNet(t, "bb_probe")
    /\ IF r = 0
       THEN Catch(t)
       ELSE /\ activeClients' = activeClients
            /\ IF Resolves(tasks[t].vers, r)
               THEN GoDb(t, [tasks[t] EXCEPT !.proto = r], ServersFile, "bb_con_r")
               ELSE GoDb(t, [tasks[t] EXCEPT !.proto = r], ServersFile, "bb_uns_r")
    /\ UNCHANGED <<disk, conns, timers, usedIds, stopped, userCache, subscriptionCache, now, got>>

\* Line 765: updateOne(Unsupported).
UnsupportedRead(t) ==
    /\ At(t, "bb_uns_r")
    /\ IF Found(t) THEN GoDb(t, StatusRead(t, "Unsupported"), ServersFile, "bb_uns_w")
       ELSE GoDone(t, "unsupported")
    /\ UNCHANGED <<disk, activeClients, conns, timers, usedIds, stopped, userCache, subscriptionCache, now, got>>

UnsupportedWrite(t) ==
    /\ At(t, "bb_uns_w")
    /\ disk' = Written(tasks[t].buf)
    /\ GoDone(t, "unsupported")
    /\ UNCHANGED <<activeClients, conns, timers, usedIds, stopped, userCache, subscriptionCache, now, got>>

\* Lines 783-848: bedrock.createClient returns a client, which is registered and
\* given its listeners, or throws, which the catch block handles.
CreateClient(t) ==
    \E ok \in BOOLEAN :
        IF ok
        THEN /\ conns' = Register(tasks[t].sid, tasks[t].vers, tasks[t].flag)[1]
             /\ activeClients' = Register(tasks[t].sid, tasks[t].vers, tasks[t].flag)[2]
             /\ GoDone(t, "started")
        ELSE /\ conns' = conns
             /\ Catch(t)

\* Lines 772-797 once Connecting is written (or the record is gone): with a ctx the
\* message edit is awaited first; without one the client is created at once.
Connect(t) ==
    IF tasks[t].ctx
    THEN /\ GoNet(t, Cleared(t), "bb_edit")
         /\ UNCHANGED <<activeClients, conns>>
    ELSE CreateClient(t)

ConnectingRead(t) ==
    /\ At(t, "bb_con_r")
    /\ IF Found(t)
       THEN /\ GoDb(t, StatusRead(t, "Connecting"), ServersFile, "bb_con_w")
            /\ UNCHANGED <<activeClients, conns>>
       ELSE Connect(t)
    /\ UNCHANGED <<disk, timers, usedIds, stopped, userCache, subscriptionCache, now, got>>

ConnectingWrite(t) ==
    /\ At(t, "bb_con_w")
    /\ disk' = Written(tasks[t].buf)
    /\ Connect(t)
    /\ UNCHANGED <<timers, usedIds, stopped, userCache, subscriptionCache, now, got>>

\* Lines 783-848: the edit returned; createClient, activeClients.set, the listeners.
ConnectEdited(t) ==
    /\ AtNet(t, "bb_edit")
    /\ CreateClient(t)
    /\ UNCHANGED <<disk, timers, usedIds, stopped, userCache, subscriptionCache, now, got>>

\* Line 853: updateOne(ConnectFailed) in the catch block (CatchPatchNothing: a
\* catch block that leaves the status as it is).
CatchPatchNothing(t) == StatusRead(t, findById(ReadResult(ServersFile), tasks[t].sid).status)
CatchPatch(t) == StatusRead(t, "ConnectFailed")

FailedRead(t) ==
    /\ At(t, "bb_fail_r")
    /\ IF Found(t) THEN GoDb(t, CatchPatch(t), ServersFile, "bb_fail_w")
       ELSE GoDone(t, "failed")
    /\ UNCHANGED <<disk, activeClients, conns, timers, usedIds, stopped, userCache, subscriptionCache, now, got>>

FailedWrite(t) ==
    /\ At(t, "bb_fail_w")
    /\ disk' = Written(tasks[t].buf)
    /\ GoDone(t, "failed")
    /\ UNCHANGED <<activeClients, conns, timers, usedIds, stopped, userCache, subscriptionCache, now, got>>

\* Line 808: the 30 s timer fires: startBedrockBot(null, currentServer, versions) probes.
RestartFire ==
    /\ timers # <<>>
    /\ FreeSlot # 0
    /\ tasks' = [tasks EXCEPT ![FreeSlot] = [Idle EXCEPT !.op = "restart", !.sid = Head(timers).sid,
                                               !.vers = Head(timers).vers, !.flag = TRUE,
                                               !.pc = "bb_probe", !.at = "net"]]
    /\ timers' = Tail(timers)
    /\ UNCHANGED <<dbLocks, disk, activeClients, conns, usedIds, stopped, userCache, subscriptionCache, now, got>>

\* ------------------------------------------------------------- watcher callbacks
\* Lines 826-828: the connection emits spawn; the listener calls updateOne(Active).
ConnSpawn(c) ==
    /\ conns[c].state = "open" /\ conns[c].listeners
    /\ conns' = [conns EXCEPT ![c].state = "live"]
    /\ StartDb([Idle EXCEPT !.op = "spawn", !.sid = conns[c].sid], ServersFile, "sp_r")
    /\ UNCHANGED <<disk, activeClients, timers, usedIds, stopped, userCache, subscriptionCache, now, got>>

SpawnRead(t) ==
    /\ At(t, "sp_r")
    /\ IF Found(t) THEN GoDb(t, StatusRead(t, "Active"), ServersFile, "sp_w")
       ELSE GoDone(t, "active")
    /\ UNCHANGED <<disk, activeClients, conns, timers, usedIds, stopped, userCache, subscriptionCache, now, got>>

SpawnWrite(t) ==
    /\ At(t, "sp_w")
    /\ disk' = Written(tasks[t].buf)
    /\ GoDone(t, "active")
    /\ UNCHANGED <<activeClients, conns, timers, usedIds, stopped, userCache, subscriptionCache, now, got>>

\* Lines 799-804 and 847-848: the connection emits disconnect or error; handleDisconnect
\* deletes the map entry, removes the listeners and calls Servers.findById.
\* (forgetLater: a handler without the delete of line 801.)
forgetLater(sid) == activeClients
forget(sid) == [activeClients EXCEPT ![sid] = 0]

ConnLost(c) ==
    /\ conns[c].state \in {"open", "live"} /\ conns[c].listeners
    /\ conns' = [conns EXCEPT ![c] = NoConn]
    /\ activeClients' = forget(conns[c].sid)
    /\ StartDb([Idle EXCEPT !.op = "disc", !.sid = conns[c].sid, !.vers = conns[c].vers,
                             !.flag = conns[c].auto], ServersFile, "hd_find")
    /\ UNCHANGED <<disk, timers, usedIds, stopped, userCache, subscriptionCache, now, got>>

\* Lines 804-810: the re-read record decides between Reconnecting and Stopped
\* (WantsRestartAlways: without the autoRestart test of line 805).
WantsRestartAlways(cur) == cur # NoServer
WantsRestart(cur) == cur # NoServer /\ cur.autoRestart

\* Line 804: currentServer is the record as findById returns it now
\* (serverOfStart: the record with the autoRestart the start call read, which the
\* handler's closure holds as server).
serverOfStart(t) ==
    IF findById(ReadResult(ServersFile), tasks[t].sid) = NoServer THEN NoServer
    ELSE [findById(ReadResult(ServersFile), tasks[t].sid) EXCEPT !.autoRestart = tasks[t].flag]
currentServer(t) == findById(ReadResult(ServersFile), tasks[t].sid)

DiscFound(t) ==
    /\ At(t, "hd_find")
    /\ IF WantsRestart(currentServer(t))
       THEN GoDb(t, tasks[t], ServersFile, "hd_rc_r")
       ELSE GoDb(t, tasks[t], ServersFile, "hd_st_r")
    /\ UNCHANGED <<disk, activeClients, conns, timers, usedIds, stopped, userCache, subscriptionCache, now, got>>

DiscReconnRead(t) ==
    /\ At(t, "hd_rc_r")
    /\ IF Found(t)
       THEN /\ GoDb(t, StatusRead(t, "Reconnecting"), ServersFile, "hd_rc_w")
            /\ timers' = timers
       ELSE /\ GoDb(t, tasks[t], UsersFile, "hd_user")
            /\ timers' = Append(timers, [sid |-> tasks[t].sid, vers |-> tasks[t].vers])
    /\ UNCHANGED <<disk, activeClients, conns, usedIds, stopped, userCache, subscriptionCache, now, got>>

\* Lines 807-815: Reconnecting is written, the restart is scheduled, the owner is looked up.
DiscReconnWrite(t) ==
    /\ At(t, "hd_rc_w")
    /\ disk' = Written(tasks[t].buf)
    /\ timers' = Append(timers, [sid |-> tasks[t].sid, vers |-> tasks[t].vers])
    /\ GoDb(t, Cleared(t), UsersFile, "hd_user")
    /\ UNCHANGED <<activeClients, conns, usedIds, stopped, userCache, subscriptionCache, now, got>>

DiscStoppedRead(t) ==
    /\ At(t, "hd_st_r")
    /\ IF Found(t) THEN GoDb(t, StatusRead(t, "Stopped"), ServersFile, "hd_st_w")
       ELSE GoDb(t, tasks[t], UsersFile, "hd_user")
    /\ UNCHANGED <<disk, activeClients, conns, timers, usedIds, stopped, userCache, subscriptionCache, now, got>>

DiscStoppedWrite(t) ==
    /\ At(t, "hd_st_w")
    /\ disk' = Written(tasks[t].buf)
    /\ GoDb(t, Cleared(t), UsersFile, "hd_user")
    /\ UNCHANGED <<activeClients, conns, timers, usedIds, stopped, userCache, subscriptionCache, now, got>>

\* Lines 815-823: Users.findOne returned; the notification is sent, errors swallowed.
DiscNotify(t) ==
    /\ At(t, "hd_user")
    /\ GoDone(t, "notified")
    /\ UNCHANGED <<disk, activeClients, conns, timers, usedIds, stopped, userCache, subscriptionCache, now, got>>

\* ------------------------------------------------------------- stopBot
\* Line 1985: stop_bot pressed; stopBot calls Servers.findById, line 882.
StopBot(sid) ==
    /\ StartDb([Idle EXCEPT !.op = "stop", !.sid = sid], ServersFile, "st_find")
    /\ UNCHANGED <<disk, activeClients, conns, timers, usedIds, stopped, userCache, subscriptionCache, now, got>>

\* Lines 2013-2014: delete_do pressed while a session exists: stopBot runs first.
DeleteDoStop(uid, sid) ==
    /\ activeClients[sid] # 0
    /\ StartDb([Idle EXCEPT !.op = "delete", !.uid = uid, !.sid = sid], ServersFile, "st_find")
    /\ UNCHANGED <<disk, activeClients, conns, timers, usedIds, stopped, userCache, subscriptionCache, now, got>>

\* Lines 883-890: no record: 'not found' (delete_do goes on to deleteOne); else updateOne.
StopFound(t) ==
    /\ At(t, "st_find")
    /\ IF findById(ReadResult(ServersFile), tasks[t].sid) # NoServer THEN GoDb(t, tasks[t], ServersFile, "st_r")
       ELSE IF tasks[t].op = "delete" THEN GoDb(t, tasks[t], ServersFile, "dl_r")
       ELSE GoDone(t, "not_found")
    /\ UNCHANGED <<disk, activeClients, conns, timers, usedIds, stopped, userCache, subscriptionCache, now, got>>

\* The patch of line 890 (StopPatchKeepsAutoRestart: without its second field).
StopPatchKeepsAutoRestart == [status |-> "Stopped"]
StopPatch == [status |-> "Stopped", autoRestart |-> FALSE]

StopRead(t) ==
    /\ At(t, "st_r")
    /\ IF Found(t)
       THEN /\ GoDb(t, [tasks[t] EXCEPT !.snap = ReadResult(ServersFile),
                           !.buf = UpdateOne(ReadResult(ServersFile), tasks[t].sid, StopPatch)],
                    ServersFile, "st_w")
            /\ UNCHANGED <<activeClients, conns>>
       ELSE /\ conns' = Teardown(tasks[t].sid)[1]
            /\ activeClients' = Teardown(tasks[t].sid)[2]
            /\ GoNet(t, tasks[t], "st_answer")
    /\ UNCHANGED <<disk, timers, usedIds, stopped, userCache, subscriptionCache, now, got>>

\* Lines 890-905: the patch is written, the session torn down, answerCbQuery awaited.
StopWrite(t) ==
    /\ At(t, "st_w")
    /\ disk' = Written(tasks[t].buf)
    /\ conns' = Teardown(tasks[t].sid)[1]
    /\ activeClients' = Teardown(tasks[t].sid)[2]
    /\ GoNet(t, Cleared(t), "st_answer")
    /\ stopped' = IF tasks[t].op = "stop" THEN stopped \cup {tasks[t].sid} ELSE stopped
    /\ UNCHANGED <<timers, usedIds, userCache, subscriptionCache, now, got>>

\* Lines 890-899 when client.disconnect() (line 897) throws: the patch is written,
\* activeClients.delete (line 899) and the rest of stopBot are skipped.  The stop_bot
\* handler (line 1985) lets the exception through; delete_do swallows it (line 2014)
\* and goes on to deleteOne.
StopWriteThrows(t) ==
    /\ At(t, "st_w")
    /\ activeClients[tasks[t].sid] # 0
    /\ disk' = Written(tasks[t].buf)
    /\ IF tasks[t].op = "delete" THEN GoDb(t, Cleared(t), ServersFile, "dl_r")
       ELSE GoDone(t, "thrown")
    /\ stopped' = IF tasks[t].op = "stop" THEN stopped \cup {tasks[t].sid} ELSE stopped
    /\ UNCHANGED <<activeClients, conns, timers, usedIds, userCache, subscriptionCache, now, got>>

\* Line 906: manageServerAction reads the record for the menu.
StopAnswered(t) ==
    /\ AtNet(t, "st_answer")
    /\ GoDb(t, tasks[t], ServersFile, "st_menu")
    /\ UNCHANGED <<disk, activeClients, conns, timers, usedIds, stopped, userCache, subscriptionCache, now, got>>

\* Lines 862-867: the record came back; editMessageText is awaited.
StopMenu(t) ==
    /\ At(t, "st_menu")
    /\ GoNet(t, tasks[t], "st_shown")
    /\ UNCHANGED <<disk, activeClients, conns, timers, usedIds, stopped, userCache, subscriptionCache, now, got>>

\* Line 906: the menu is shown and stopBot returns (delete_do goes on to deleteOne,
\* line 2016).
StopShown(t) ==
    /\ AtNet(t, "st_shown")
    /\ IF tasks[t].op = "delete" THEN GoDb(t, tasks[t], ServersFile, "dl_r") ELSE GoDone(t, "stopped")
    /\ UNCHANGED <<disk, activeClients, conns, timers, usedIds, stopped, userCache, subscriptionCache, now, got>>

\* ------------------------------------------------------------- caches
MaxNow == 61000                 \* the clock stops here
Keys == {1, 2}                  \* user ids
Values == {"a", "b"}            \* what callers cache
Ttls == {0, 60}                 \* seconds; the callers pass 60, 300 and 3600
Delays == {30000, 31000}        \* milliseconds between two calls
Caches == {"userCache", "subscriptionCache"}

\* Map.get of a key that is not in the Map is undefined; setAt and ttl are history.
NoEntry == [has |-> FALSE, value |-> "none", expiry |-> 0, setAt |-> 0, ttl |-> 0]

\* getFromCache, line 100: the entry exists and has not expired at time t
\* (FreshInclusive: with >= for >).
FreshInclusive(e, t) == e.has /\ e.expiry >= t
Fresh(e, t) == e.has /\ e.expiry > t

\* getFromCache, lines 98-105, at time t: the value returned (null on a miss) and the
\* Map afterwards.
getFromCache(cache, key, t) ==
    IF Fresh(cache[key], t)
    THEN [value |-> cache[key].value, cache |-> cache]
    ELSE [value |-> "null", cache |-> [cache EXCEPT ![key] = NoEntry]]

\* setToCache, lines 107-110, at time t: the Map afterwards.
setToCache(cache, key, value, ttl, t) ==
    [cache EXCEPT ![key] = [has |-> TRUE, value |-> value, expiry |-> t + ttl * 1000,
                            setAt |-> t, ttl |-> ttl]]

NoGot == [call |-> "none", cache |-> "none", key |-> 0, value |-> "null", ttl |-> 0]
CacheOf(c) == IF c = "userCache" THEN userCache ELSE subscriptionCache

InitCaches ==
    /\ userCache = [k \in Keys |-> NoEntry]
    /\ subscriptionCache = [k \in Keys |-> NoEntry]
    /\ now = 0
    /\ got = NoGot

\* A caller sets an entry (lines 124, 161, 165, 1619, 1723).
CacheSet(c, k, v, ttl) ==
    /\ IF c = "userCache"
       THEN userCache' = setToCache(userCache, k, v, ttl, now) /\ UNCHANGED subscriptionCache
       ELSE subscriptionCache' = setToCache(subscriptionCache, k, v, ttl, now) /\ UNCHANGED userCache
    /\ got' = [call |-> "set", cache |-> c, key |-> k, value |-> v, ttl |-> ttl]
    /\ UNCHANGED <<dbLocks, disk, activeClients, conns, timers, tasks, usedIds, stopped, now>>

\* A caller looks a key up (lines 115, 1613, 1723).
CacheGet(c, k) ==
    /\ got' = [call |-> "get", cache |-> c, key |-> k,
               value |-> getFromCache(CacheOf(c), k, now).value, ttl |-> 0]
    /\ IF c = "userCache"
       THEN userCache' = getFromCache(userCache, k, now).cache /\ UNCHANGED subscriptionCache
       ELSE subscriptionCache' = getFromCache(subscriptionCache, k, now).cache /\ UNCHANGED userCache
    /\ UNCHANGED <<dbLocks, disk, activeClients, conns, timers, tasks, usedIds, stopped, now>>

\* Time passes.
Tick(d) ==
    /\ now + d <= MaxNow
    /\ now' = now + d
    /\ got' = NoGot
    /\ UNCHANGED <<dbLocks, disk, activeClients, conns, timers, tasks, usedIds, stopped,
                   userCache, subscriptionCache>>

\* ------------------------------------------------------------- specification
InitDisk == [f \in Files |-> [st |-> "missing", data |-> <<>>]]

Init ==
    /\ dbLocks = [f \in Files |-> FALSE]
    /\ \E st \in {"missing", "malformed", "ok"} : disk = [InitDisk EXCEPT ![ServersFile].st = st]
    /\ activeClients = [i \in AllIds |-> 0]
    /\ conns = [c \in ConnIds |-> NoConn]
    /\ timers = <<>>
    /\ tasks = [t \in TaskIds |-> Idle]
    /\ usedIds = {}
    /\ stopped = {}
    /\ InitCaches

NextStore ==
    \/ \E t \in TaskIds : AcquireLockPoll(t)
    \/ \E t \in TaskIds : Return(t)
    \/ \E t \in TaskIds : IoError(t)
    \/ \E uid \in Owners, addr \in Addrs, id \in Ids : AddServer(uid, addr, id)
    \/ \E t \in TaskIds : WizardCount(t)
    \/ \E t \in TaskIds : WizardDupOwn(t)
    \/ \E t \in TaskIds : WizardDupOther(t)
    \/ \E t \in TaskIds : CreateRead(t)
    \/ \E t \in TaskIds : CreateWrite(t)
    \/ \E t \in TaskIds : ReorderRead(t)
    \/ \E t \in TaskIds : ReorderWrite(t)
    \/ \E sid \in Ids : ToggleAutoRestart(sid)
    \/ \E t \in TaskIds : ToggleFound(t)
    \/ \E t \in TaskIds : ToggleRead(t)
    \/ \E t \in TaskIds : ToggleWrite(t)
    \/ \E uid \in Owners, sid \in Ids : DeleteDo(uid, sid)
    \/ \E t \in TaskIds : DeleteRead(t)
    \/ \E t \in TaskIds : DeleteWrite(t)

SpecStore == Init /\ [][NextStore]_vars

\* The same with every port parseInt can return.
AddHugePort == \E uid \in Owners, id \in Ids : AddServer(uid, Infinity, id)
NextPorts == NextStore \/ AddHugePort
SpecPorts == Init /\ [][NextPorts]_vars

\* One owner with three endpoints a < b < c (and a second owner with none yet); the
\* array in servers.json is in any order, since ids are random and reorderServers
\* puts the renumbered owner's records last.
RenumberSeeds == {<<SeedA, SeedB, SeedC>>, <<SeedC, SeedA, SeedB>>, <<SeedB, SeedC, SeedA>>}
InitRenumber ==
    /\ dbLocks = [f \in Files |-> FALSE]
    /\ \E o \in RenumberSeeds :
          disk = [InitDisk EXCEPT ![ServersFile] =
                     [st |-> "ok", data |-> [i \in 1..3 |-> NewServer(o[i], 1, o[i] - MaxIds, o[i])]]]
    /\ activeClients = [i \in AllIds |-> 0]
    /\ conns = [c \in ConnIds |-> NoConn]
    /\ timers = <<>>
    /\ tasks = [t \in TaskIds |-> Idle]
    /\ usedIds = {SeedA, SeedB, SeedC}
    /\ stopped = {}
    /\ InitCaches

NextRenumber ==
    \/ \E t \in TaskIds : AcquireLockPoll(t)
    \/ \E t \in TaskIds : Return(t)
    \/ \E uid \in Owners, addr \in Addrs, id \in Ids : AddServer(uid, addr, id)
    \/ \E t \in TaskIds : WizardCount(t)
    \/ \E t \in TaskIds : WizardDupOwn(t)
    \/ \E t \in TaskIds : WizardDupOther(t)
    \/ \E t \in TaskIds : CreateRead(t)
    \/ \E t \in TaskIds : CreateWrite(t)
    \/ \E t \in TaskIds : ReorderRead(t)
    \/ \E t \in TaskIds : ReorderWrite(t)
    \/ \E sid \in AllIds : DeleteDo(1, sid)
    \/ \E t \in TaskIds : DeleteRead(t)
    \/ \E t \in TaskIds : DeleteWrite(t)

SpecRenumber == InitRenumber /\ [][NextRenumber]_vars

\* One endpoint registered and stopped, one catalog entry, nothing running.
SeedServer(id, uid, addr, name) == [NewServer(id, uid, name, addr) EXCEPT !.status = "Stopped"]
InitSession ==
    /\ dbLocks = [f \in Files |-> FALSE]
    /\ disk = [InitDisk EXCEPT ![ServersFile] = [st |-> "ok", data |-> <<SeedServer(SeedA, 1, 1, 1)>>],
                               ![VersionsFile] = [st |-> "ok", data |-> <<[type |-> "bedrock", protocol |-> 1, name |-> 1]>>]]
    /\ activeClients = [i \in AllIds |-> 0]
    /\ conns = [c \in ConnIds |-> NoConn]
    /\ timers = <<>>
    /\ tasks = [t \in TaskIds |-> Idle]
    /\ usedIds = {SeedA}
    /\ stopped = {}
    /\ InitCaches

Next ==
    \/ \E t \in TaskIds : AcquireLockPoll(t)
    \/ \E t \in TaskIds : Return(t)
    \/ StartBot(SeedA)
    \/ \E t \in TaskIds : StartFound(t)
    \/ \E t \in TaskIds : StartSearchingRead(t)
    \/ \E t \in TaskIds : StartSearchingWrite(t)
    \/ \E t \in TaskIds : StartVersions(t)
    \/ \E t \in TaskIds : StartProbe(t)
    \/ \E t \in TaskIds, r \in {0} \cup Protocols : ProbeResult(t, r)
    \/ \E t \in TaskIds : UnsupportedRead(t)
    \/ \E t \in TaskIds : UnsupportedWrite(t)
    \/ \E t \in TaskIds : ConnectingRead(t)
    \/ \E t \in TaskIds : ConnectingWrite(t)
    \/ \E t \in TaskIds : ConnectEdited(t)
    \/ \E t \in TaskIds : FailedRead(t)
    \/ \E t \in TaskIds : FailedWrite(t)
    \/ RestartFire
    \/ \E c \in ConnIds : ConnSpawn(c)
    \/ \E t \in TaskIds : SpawnRead(t)
    \/ \E t \in TaskIds : SpawnWrite(t)
    \/ \E c \in ConnIds : ConnLost(c)
    \/ \E t \in TaskIds : DiscFound(t)
    \/ \E t \in TaskIds : DiscReconnRead(t)
    \/ \E t \in TaskIds : DiscReconnWrite(t)
    \/ \E t \in TaskIds : DiscStoppedRead(t)
    \/ \E t \in TaskIds : DiscStoppedWrite(t)
    \/ \E t \in TaskIds : DiscNotify(t)
    \/ StopBot(SeedA)
    \/ DeleteDoStop(1, SeedA)
    \/ \E t \in TaskIds : StopFound(t)
    \/ \E t \in TaskIds : StopRead(t)
    \/ \E t \in TaskIds : StopWrite(t)
    \/ \E t \in TaskIds : StopAnswered(t)
    \/ \E t \in TaskIds : StopMenu(t)
    \/ \E t \in TaskIds : StopShown(t)
    \/ ToggleAutoRestart(SeedA)
    \/ \E t \in TaskIds : ToggleFound(t)
    \/ \E t \in TaskIds : ToggleRead(t)
    \/ \E t \in TaskIds : ToggleWrite(t)
    \/ DeleteDo(1, SeedA)
    \/ \E t \in TaskIds : DeleteRead(t)
    \/ \E t \in TaskIds : DeleteWrite(t)
    \/ \E t \in TaskIds : ReorderRead(t)
    \/ \E t \in TaskIds : ReorderWrite(t)

Spec == InitSession /\ [][Next]_vars

\* ------------------------------------------------------------- checkServersStatus
\* activeClients.entries(), line 2286, yields the keys in the order they were set;
\* the sweep is modelled from a state with a Session for SeedA and one for SeedB,
\* set in this order, and without a start in flight, so no key is set meanwhile.
Entries == <<SeedA, SeedB>>

\* The iterator's next key: the first key after the ones it has yielded that the
\* map still holds (0: done).
NextEntry(seen, map) ==
    LET left == {i \in 1..Len(Entries) : Entries[i] \notin seen /\ map[Entries[i]] # 0} IN
    IF left = {} THEN 0 ELSE Entries[CHOOSE i \in left : \A j \in left : i <= j]

\* Lines 2286-2300, one turn of the loop up to its first await: the next entry is
\* taken, its client reports alive or not (connected || isAlive, line 2292), a dead
\* one is deleted from the map (line 2296), and Servers.findById is called; with
\* no entry left the sweep ends.
Visit(t) ==
    LET sid == NextEntry(tasks[t].seen, activeClients) IN
    IF sid = 0
    THEN /\ GoDone(t, "swept")
         /\ activeClients' = activeClients
    ELSE \E alive \in BOOLEAN :
            /\ activeClients' = IF alive THEN activeClients ELSE [activeClients EXCEPT ![sid] = 0]
            /\ GoDb(t, [tasks[t] EXCEPT !.sid = sid, !.flag = alive, !.seen = @ \cup {sid},
                                        !.snap = <<>>, !.buf = <<>>], ServersFile, "sw_find")

\* setInterval(checkServersStatus), line 2328, fires.
checkServersStatus ==
    /\ FreeSlot # 0
    /\ \A t \in TaskIds : tasks[t].op # "sweep"
    /\ LET t == FreeSlot IN
       \E alive \in BOOLEAN :
          LET sid == NextEntry({}, activeClients) IN
          IF sid = 0
          THEN /\ tasks' = [tasks EXCEPT ![t] = [Idle EXCEPT !.op = "sweep", !.pc = "swept", !.at = "ret"]]
               /\ UNCHANGED <<dbLocks, activeClients>>
          ELSE LET e == acquireLock(dbLocks, ServersFile) IN
               /\ activeClients' = IF alive THEN activeClients ELSE [activeClients EXCEPT ![sid] = 0]
               /\ dbLocks' = e.locks
               /\ tasks' = [tasks EXCEPT ![t] = [Idle EXCEPT !.op = "sweep", !.sid = sid, !.flag = alive,
                                                             !.seen = {sid}, !.pc = "sw_find", !.at = e.at,
                                                             !.file = ServersFile]]
    /\ UNCHANGED <<disk, conns, timers, usedIds, stopped, userCache, subscriptionCache, now, got>>

\* The catch block of lines 2307-2318 is entered (pc sw_c_...) when a store call of
\* the try block throws; a store call that throws inside it is ignored (line 2317)
\* and the loop goes on.
\* (ThrownEndsSweep: a loop without the try/catch, which an error ends.)
InCatch(t) == tasks[t].pc \in {"sw_c_find", "sw_c_r", "sw_c_w"}
ThrownEndsSweep(t) ==
    /\ GoDone(t, "swept")
    /\ activeClients' = activeClients
Thrown(t) ==
    IF InCatch(t) THEN Visit(t)
    ELSE /\ GoDb(t, Cleared(t), ServersFile, "sw_c_find")
         /\ activeClients' = activeClients

\* Lines 2300-2301 and 2310-2311: findById returned or threw (ok = FALSE); a missing
\* record is skipped, else updateOne is called.
SweepFound(t, ok) ==
    /\ tasks[t].op = "sweep" /\ tasks[t].at = "io" /\ tasks[t].pc \in {"sw_find", "sw_c_find"}
    /\ IF ~ok THEN Thrown(t)
       ELSE IF findById(ReadResult(ServersFile), tasks[t].sid) = NoServer THEN Visit(t)
       ELSE /\ GoDb(t, tasks[t], ServersFile, IF InCatch(t) THEN "sw_c_r" ELSE "sw_r")
            /\ activeClients' = activeClients
    /\ UNCHANGED <<disk, conns, timers, usedIds, stopped, userCache, subscriptionCache, now, got>>

\* Lines 2303-2306 and 2312-2315: the status the sweep writes.
SweepStatus(t) == IF InCatch(t) THEN "Unknown" ELSE IF tasks[t].flag THEN "Active" ELSE "Stopped"

\* updateOne, lines 549-554: its find() returned or threw.
SweepRead(t, ok) ==
    /\ tasks[t].op = "sweep" /\ tasks[t].at = "io" /\ tasks[t].pc \in {"sw_r", "sw_c_r"}
    /\ IF ~ok THEN Thrown(t)
       ELSE IF ~Found(t) THEN Visit(t)
       ELSE /\ GoDb(t, StatusRead(t, SweepStatus(t)), ServersFile, IF InCatch(t) THEN "sw_c_w" ELSE "sw_w")
            /\ activeClients' = activeClients
    /\ UNCHANGED <<disk, conns, timers, usedIds, stopped, userCache, subscriptionCache, now, got>>

\* updateOne, line 555: writeDb returned or threw; the loop goes on.
SweepWrite(t, ok) ==
    /\ tasks[t].op = "sweep" /\ tasks[t].at = "io" /\ tasks[t].pc \in {"sw_w", "sw_c_w"}
    /\ IF ok THEN disk' = Written(tasks[t].buf) /\ Visit(t)
       ELSE disk' = disk /\ Thrown(t)
    /\ UNCHANGED <<conns, timers, usedIds, stopped, userCache, subscriptionCache, now, got>>

\* Two Sessions, SeedA's record Connecting or Active, SeedB's record Active or gone
\* (deleted while its start was in flight).
InitSweep ==
    /\ dbLocks = [f \in Files |-> FALSE]
    /\ \E st \in {"Connecting", "Active"}, gone \in BOOLEAN :
          disk = [InitDisk EXCEPT ![ServersFile] =
                     [st |-> "ok",
                      data |-> <<[SeedServer(SeedA, 1, 1, 1) EXCEPT !.status = st]>>
                               \o (IF gone THEN <<>>
                                   ELSE <<[SeedServer(SeedB, 1, 2, 2) EXCEPT !.status = "Active"]>>)]]
    /\ activeClients = [i \in AllIds |-> IF i = SeedA THEN 1 ELSE IF i = SeedB THEN 2 ELSE 0]
    /\ conns = [c \in ConnIds |->
                   IF c = 1 THEN [sid |-> SeedA, state |-> "live", listeners |-> TRUE, vers |-> {1}, auto |-> FALSE]
                   ELSE IF c = 2 THEN [sid |-> SeedB, state |-> "live", listeners |-> TRUE, vers |-> {1}, auto |-> FALSE]
                   ELSE NoConn]
    /\ timers = <<>>
    /\ tasks = [t \in TaskIds |-> Idle]
    /\ usedIds = {SeedA, SeedB}
    /\ stopped = {}
    /\ InitCaches

NextSweep ==
    \/ checkServersStatus
    \/ \E t \in TaskIds, ok \in BOOLEAN : SweepFound(t, ok)
    \/ \E t \in TaskIds, ok \in BOOLEAN : SweepRead(t, ok)
    \/ \E t \in TaskIds, ok \in BOOLEAN : SweepWrite(t, ok)
    \/ \E sid \in {SeedA, SeedB} : StopBot(sid)
    \/ \E t \in TaskIds : StopFound(t)
    \/ \E t \in TaskIds : StopRead(t)
    \/ \E t \in TaskIds : StopWrite(t)
    \/ \E t \in TaskIds : StopAnswered(t)
    \/ \E t \in TaskIds : StopMenu(t)
    \/ \E t \in TaskIds : StopShown(t)
    \/ \E t \in TaskIds : AcquireLockPoll(t)
    \/ \E t \in TaskIds : Return(t)

SpecSweep == InitSweep /\ [][NextSweep]_vars

\* The same with a client whose disconnect() may throw.
NextTeardown == Next \/ \E t \in TaskIds : StopWriteThrows(t)
SpecTeardown == InitSession /\ [][NextTeardown]_vars

\* readDb alone, on every file in every condition.
Content(f) ==
    IF f = ServersFile THEN <<SeedServer(SeedA, 1, 1, 1)>>
    ELSE IF f = VersionsFile THEN <<[type |-> "bedrock", protocol |-> 1, name |-> 1]>>
    ELSE IF f = UsersFile THEN <<[userId |-> 1, language |-> "en"]>>
    ELSE <<[key |-> "requiredChannels", value |-> 0]>>

ReadDb(f) ==
    /\ StartDb([Idle EXCEPT !.op = "read"], f, "rd")
    /\ UNCHANGED <<disk, activeClients, conns, timers, usedIds, stopped, userCache, subscriptionCache, now, got>>

\* Lines 53-77: readFile and JSON.parse are done; the value is returned or the
\* error rethrown, and the finally block releases the lock.
ReadDbReturn(t) ==
    /\ At(t, "rd")
    /\ LET r == readDb(tasks[t].file) IN
       /\ dbLocks' = Finally(dbLocks, tasks[t].file, ~r.thrown)
       /\ tasks' = [tasks EXCEPT ![t] =
                        [Finished(t, IF r.thrown THEN "store_error" ELSE r.kind) EXCEPT !.snap = r.items]]
    /\ UNCHANGED <<disk, activeClients, conns, timers, usedIds, stopped, userCache, subscriptionCache, now, got>>

InitRead ==
    /\ dbLocks = [f \in Files |-> FALSE]
    /\ \E c \in [Files -> {"ok", "missing", "malformed", "unreadable"}] :
          disk = [f \in Files |-> [st |-> c[f], data |-> IF c[f] = "ok" THEN Content(f) ELSE <<>>]]
    /\ activeClients = [i \in AllIds |-> 0]
    /\ conns = [c \in ConnIds |-> NoConn]
    /\ timers = <<>>
    /\ tasks = [t \in TaskIds |-> Idle]
    /\ usedIds = {}
    /\ stopped = {}
    /\ InitCaches

NextRead ==
    \/ \E f \in Files : ReadDb(f)
    \/ \E t \in TaskIds : ReadDbReturn(t)
    \/ \E t \in TaskIds : AcquireLockPoll(t)
    \/ \E t \in TaskIds : Return(t)

SpecRead == InitRead /\ [][NextRead]_vars

\* The caches alone, with the clock.
NextCache ==
    \/ \E c \in Caches, k \in Keys, v \in Values, ttl \in Ttls : CacheSet(c, k, v, ttl)
    \/ \E c \in Caches, k \in Keys : CacheGet(c, k)
    \/ \E d \in Delays : Tick(d)

SpecCache == InitSession /\ [][NextCache]_vars

\* Node runs every callback that is due: an operation whose awaited I/O, network
\* call or 50 ms sleep has completed goes on (Step), and the 30 s timer of line 808
\* fires whatever else is in flight (the task slots of this module are the only
\* thing that can hold RestartFire back, hence strong fairness).
Step == Next /\ \E t \in TaskIds : tasks[t].at # "idle" /\ tasks'[t] # tasks[t]
FairSpec == Spec /\ WF_vars(Step) /\ SF_vars(RestartFire)

\* The store operations under Node's scheduling: the pending fs call of every
\* operation completes and its continuation runs, and a caller asleep in
\* acquireLock wakes every 50 ms (line 39).  A wake-up that finds the lock held
\* changes nothing, so only a lock that stays free lets a sleeper take it for sure.
Moves(t) == NextStore /\ tasks[t].at # "idle" /\ tasks'[t] # tasks[t]
FairStore == SpecStore /\ \A t \in TaskIds : WF_vars(Moves(t))

\* ------------------------------------------------------------- users and config
Channels == {1, 2}              \* the channel names an admin sends
En == 1                         \* 'en'
Ar == 2                         \* 'ar'
NullLang == 0                   \* language: null
UserA == 1                      \* two users who have pressed /start
UserB == 2

NoUser == [userId |-> 0, isBanned |-> FALSE, isAdmin |-> FALSE, language |-> 0]

RECURSIVE FindUser(_, _, _)
FindUser(s, uid, i) ==
    IF i > Len(s) THEN 0 ELSE IF s[i].userId = uid THEN i ELSE FindUser(s, uid, i + 1)

\* Users.findOne({userId}), lines 485-488 (NoUser is null).
findOne(s, uid) == LET i == FindUser(s, uid, 1) IN IF i = 0 THEN NoUser ELSE s[i]

\* Users.updateOne, lines 503-512: the array it hands to writeDb.
UsersUpdateOne(s, uid, patch) ==
    LET i == FindUser(s, uid, 1) IN IF i = 0 THEN s ELSE [s EXCEPT ![i] = Merge(s[i], patch)]

\* writeDb, lines 84-85, for a file whose values JSON.stringify writes as they are.
WriteDb(f, data) == [disk EXCEPT ![f] = [st |-> "ok", data |-> data]]

\* config.json is a document: its members, in the order they were set.
RECURSIVE FindKey(_, _, _)
FindKey(doc, key, i) ==
    IF i > Len(doc) THEN 0 ELSE IF doc[i].key = key THEN i ELSE FindKey(doc, key, i + 1)
Defined(doc, key) == FindKey(doc, key, 1) # 0
SetKey(doc, key, value) ==
    LET i == FindKey(doc, key, 1) IN
    IF i = 0 THEN Append(doc, [key |-> key, value |-> value])
    ELSE [doc EXCEPT ![i].value = value]

\* config.requiredChannels || [], line 121.
requiredChannels(doc) ==
    LET i == FindKey(doc, "requiredChannels", 1) IN IF i = 0 THEN <<>> ELSE doc[i].value

\* Config.updateOne with $addToSet, lines 585-590, and with $pull, lines 591-594: the
\* document it hands to writeDb.
AddToSet(doc, c) ==
    LET cur == requiredChannels(doc) IN
    SetKey(doc, "requiredChannels",
           IF \E i \in 1..Len(cur) : cur[i] = c THEN cur ELSE Append(cur, c))
Pull(doc, c) ==
    IF Defined(doc, "requiredChannels")
    THEN SetKey(doc, "requiredChannels", SelectSeq(requiredChannels(doc), LAMBDA x : x # c))
    ELSE doc

\* Line 1618: what the status middleware caches for a user; props are the
\* properties the cached object has.
StatusOf(u) ==
    [isBanned |-> u.isBanned, isAdmin |-> u.isAdmin,
     language |-> IF u.language = NullLang THEN En ELSE u.language,
     props |-> {"isBanned", "isAdmin", "language"}]

\* Line 1723: { ...(getFromCache(userCache, id) || {}), language: lang }.  A property
\* the object does not have reads as undefined, which the middleware takes for false.
WithLanguage(cache, key, lang, t) ==
    IF Fresh(cache[key], t)
    THEN [cache[key].value EXCEPT !.language = lang, !.props = @ \cup {"language"}]
    ELSE [isBanned |-> FALSE, isAdmin |-> FALSE, language |-> lang, props |-> {"language"}]

\* Map.delete, lines 1745, 1795, 1844 and 1880 (deleteNever: without it).
deleteNever(cache, key) == cache
delete(cache, key) == [cache EXCEPT ![key] = NoEntry]

\* Map.clear, lines 1177 and 1196 (clearNever: without it).
clearNever(cache) == cache
clear(cache) == [k \in DOMAIN cache |-> NoEntry]

\* ------------------------------------------------------------- the middlewares
\* The handler the middlewares hand the update to: set_lang starts with
\* answerCbQuery (line 1713); any other handler is not followed further.
Handler(t, rec) ==
    IF rec.op = "set_lang"
    THEN GoNet(t, [rec EXCEPT !.chans = <<>>, !.todo = <<>>, !.seen = {}, !.caller = "none"], "sl_answer")
    ELSE GoDone(t, "next")

\* checkUserSubscription has its answer v, lines 1885-1893 and 1757-1760.
Result(t, rec, v) ==
    IF rec.caller = "gate"
    THEN IF v THEN Handler(t, rec) ELSE GoDone(t, "blocked")
    ELSE GoDone(t, IF rec.caller = "bot.start" THEN "menu" ELSE "lang_set")

\* checkUserSubscription, lines 114-120, called with the Map as it is at the call:
\* a hit is returned, a miss goes on to read config.json.
Check(t, rec, cache) ==
    LET k == rec.uid IN
    IF Fresh(cache[k], now)
    THEN /\ subscriptionCache' = cache
         /\ Result(t, rec, cache[k].value)
    ELSE /\ subscriptionCache' = getFromCache(cache, k, now).cache
         /\ GoDb(t, rec, ConfigFile, "cs_conf")

\* The subscription gate, lines 1866-1883; flag records whether the entry of line
\* 1880 was there and unexpired.  /start passes at line 1875 whoever sends it, and
\* bot.start begins in the same turn (lines 1795-1797).
Gate(t, rec, isAdmin) ==
    IF rec.op = "/start"
    THEN /\ subscriptionCache' = delete(subscriptionCache, rec.uid)
         /\ GoDb(t, rec, UsersFile, "bs_find")
    ELSE IF isAdmin
    THEN Handler(t, rec) /\ UNCHANGED subscriptionCache
    ELSE Check(t, [rec EXCEPT !.caller = "gate", !.flag = Fresh(subscriptionCache[rec.uid], now)],
               delete(subscriptionCache, rec.uid))

\* A message or a button press of user k arrives (l = 0), or the button set_lang:l.
\* attachI18nMiddleware, line 1582: Users.findOne is called.
Arrives(op, k, l) ==
    /\ StartDb([Idle EXCEPT !.op = op, !.uid = k, !.lang = l], UsersFile, "i18n")
    /\ UNCHANGED <<disk, activeClients, conns, timers, usedIds, stopped, userCache, subscriptionCache, now, got>>
Interact(k, l) ==
    /\ StartDb([Idle EXCEPT !.op = IF l = 0 THEN "message" ELSE "set_lang", !.uid = k, !.lang = l],
               UsersFile, "i18n")
    /\ UNCHANGED <<disk, activeClients, conns, timers, usedIds, stopped, userCache, subscriptionCache, now, got>>

\* Lines 1583-1595, then line 1604: readDb('config.json') is called.
I18n(t) ==
    /\ At(t, "i18n")
    /\ GoDb(t, tasks[t], ConfigFile, "mw_conf")
    /\ UNCHANGED <<disk, activeClients, conns, timers, usedIds, stopped, userCache, subscriptionCache, now, got>>

\* The status a cached or stored user has passed on, lines 1623-1634.
Passed(t, status) ==
    IF status.isBanned THEN GoDone(t, "banned") /\ UNCHANGED subscriptionCache
    ELSE Gate(t, tasks[t], status.isAdmin)

\* Lines 1604-1616: the config was read; the status cache is looked up.
MwConfig(t) ==
    /\ At(t, "mw_conf")
    /\ LET k == tasks[t].uid
           doc == ReadResult(ConfigFile) IN
       IF Defined(doc, "botOnline") /\ ~doc[FindKey(doc, "botOnline", 1)].value
       THEN GoDone(t, "maintenance") /\ UNCHANGED <<userCache, subscriptionCache>>
       ELSE /\ userCache' = getFromCache(userCache, k, now).cache
            /\ IF Fresh(userCache[k], now)
               THEN Passed(t, userCache[k].value)
               ELSE GoDb(t, tasks[t], UsersFile, "mw_user") /\ UNCHANGED subscriptionCache
    /\ UNCHANGED <<disk, activeClients, conns, timers, usedIds, stopped, now, got>>

\* Lines 1616-1634: Users.findOne returned.
MwUser(t) ==
    /\ At(t, "mw_user")
    /\ LET k == tasks[t].uid
           user == findOne(ReadResult(UsersFile), k) IN
       IF user = NoUser
       THEN UNCHANGED userCache /\ Gate(t, tasks[t], FALSE)
       ELSE /\ userCache' = setToCache(userCache, k, StatusOf(user), 60, now)
            /\ Passed(t, StatusOf(user))
    /\ UNCHANGED <<disk, activeClients, conns, timers, usedIds, stopped, now, got>>

\* ------------------------------------------------------------- checkUserSubscription
\* Lines 120-126: the config was read.
CsConfig(t) ==
    /\ At(t, "cs_conf")
    /\ LET required == requiredChannels(ReadResult(ConfigFile)) IN
       IF required = <<>>
       THEN /\ subscriptionCache' = setToCache(subscriptionCache, tasks[t].uid, TRUE, 3600, now)
            /\ Result(t, tasks[t], TRUE)
       ELSE /\ GoNet(t, [tasks[t] EXCEPT !.chans = required, !.todo = required, !.seen = {}], "cs_member")
            /\ UNCHANGED subscriptionCache
    /\ UNCHANGED <<disk, activeClients, conns, timers, usedIds, stopped, userCache, now, got>>

\* Lines 130-166: getChatMember answered for one channel (member: neither left nor
\* kicked, and no error).
CsMember(t, member) ==
    /\ tasks[t].pc = "cs_member" /\ tasks[t].at = "net"
    /\ LET c == Head(tasks[t].todo)
           unsubscribed == IF member THEN tasks[t].seen ELSE tasks[t].seen \cup {c}
           rec == [tasks[t] EXCEPT !.todo = Tail(@), !.seen = unsubscribed] IN
       IF rec.todo # <<>>
       THEN GoNet(t, rec, "cs_member") /\ UNCHANGED subscriptionCache
       ELSE IF unsubscribed # {}
       THEN GoNet(t, rec, "cs_reply") /\ UNCHANGED subscriptionCache
       ELSE /\ subscriptionCache' = setToCache(subscriptionCache, tasks[t].uid, TRUE, 300, now)
            /\ Result(t, rec, TRUE)
    /\ UNCHANGED <<disk, activeClients, conns, timers, usedIds, stopped, userCache, now, got>>

\* Lines 149-162: the reply that lists the channels was sent, or failed.
CsReply(t) ==
    /\ tasks[t].pc = "cs_reply" /\ tasks[t].at = "net"
    /\ subscriptionCache' = setToCache(subscriptionCache, tasks[t].uid, FALSE, 300, now)
    /\ Result(t, tasks[t], FALSE)
    /\ UNCHANGED <<disk, activeClients, conns, timers, usedIds, stopped, userCache, now, got>>

\* ------------------------------------------------------------- set_lang
\* Lines 1713-1719: answerCbQuery returned; Users.updateOne is called.
SlAnswer(t) ==
    /\ tasks[t].pc = "sl_answer" /\ tasks[t].at = "net"
    /\ GoDb(t, tasks[t], UsersFile, "sl_r")
    /\ UNCHANGED <<disk, activeClients, conns, timers, usedIds, stopped, userCache, subscriptionCache, now, got>>

\* Line 1723, then the message is edited (line 1734).
SlCache(t) ==
    /\ userCache' = setToCache(userCache, tasks[t].uid,
                               WithLanguage(userCache, tasks[t].uid, tasks[t].lang, now), 60, now)
    /\ GoNet(t, [tasks[t] EXCEPT !.buf = <<>>], "sl_edit")

\* Users.updateOne, lines 504-511: the users were read.
SlRead(t) ==
    /\ At(t, "sl_r")
    /\ LET all == ReadResult(UsersFile) IN
       IF FindUser(all, tasks[t].uid, 1) = 0
       THEN SlCache(t)
       ELSE /\ GoDb(t, [tasks[t] EXCEPT !.buf = UsersUpdateOne(all, tasks[t].uid, [language |-> tasks[t].lang])],
                    UsersFile, "sl_w")
            /\ UNCHANGED userCache
    /\ UNCHANGED <<disk, activeClients, conns, timers, usedIds, stopped, subscriptionCache, now, got>>

\* Users.updateOne, line 510: the users were written.
SlWrite(t) ==
    /\ At(t, "sl_w")
    /\ disk' = WriteDb(UsersFile, tasks[t].buf)
    /\ SlCache(t)
    /\ UNCHANGED <<activeClients, conns, timers, usedIds, stopped, subscriptionCache, now, got>>

\* Lines 1734-1749: the message was edited; the user's entry is deleted and
\* Users.findOne is called.
SlEdit(t) ==
    /\ tasks[t].pc = "sl_edit" /\ tasks[t].at = "net"
    /\ subscriptionCache' = delete(subscriptionCache, tasks[t].uid)
    /\ GoDb(t, tasks[t], UsersFile, "sl_find")
    /\ UNCHANGED <<disk, activeClients, conns, timers, usedIds, stopped, userCache, now, got>>

\* Lines 1749-1764: the user was looked up; checkUserSubscription is called.
SlFind(t) ==
    /\ At(t, "sl_find")
    /\ IF findOne(ReadResult(UsersFile), tasks[t].uid) = NoUser
       THEN GoDone(t, "lang_set") /\ UNCHANGED subscriptionCache
       ELSE Check(t, [tasks[t] EXCEPT !.caller = "set_lang"], subscriptionCache)
    /\ UNCHANGED <<disk, activeClients, conns, timers, usedIds, stopped, userCache, now, got>>

\* ------------------------------------------------------------- userActionScene, adminActionScene
FlagOps == {"ban", "unban", "add_admin", "remove_admin"}
\* Lines 1398, 1403, 1449 and 1453: the $set of each action.
PatchOf(op) ==
    IF op = "ban" THEN [isBanned |-> TRUE]
    ELSE IF op = "unban" THEN [isBanned |-> FALSE]
    ELSE IF op = "add_admin" THEN [isAdmin |-> TRUE]
    ELSE [isAdmin |-> FALSE]

\* Lines 1388-1392 and 1442-1445: an admin sent the id of user k; Users.findOne is called.
UserAction(op, k) ==
    /\ StartDb([Idle EXCEPT !.op = op, !.uid = k], UsersFile, "ua_find")
    /\ UNCHANGED <<disk, activeClients, conns, timers, usedIds, stopped, userCache, subscriptionCache, now, got>>

\* Lines 1393-1403 and 1446-1453.
UaFind(t) ==
    /\ At(t, "ua_find")
    /\ IF findOne(ReadResult(UsersFile), tasks[t].uid) = NoUser
       THEN GoDone(t, "user_not_found")
       ELSE GoDb(t, tasks[t], UsersFile, "ua_r")
    /\ UNCHANGED <<disk, activeClients, conns, timers, usedIds, stopped, userCache, subscriptionCache, now, got>>

\* Users.updateOne, lines 504-511: the users were read.
UaRead(t) ==
    /\ At(t, "ua_r")
    /\ LET all == ReadResult(UsersFile) IN
       IF FindUser(all, tasks[t].uid, 1) = 0 THEN GoDone(t, "done")
       ELSE GoDb(t, [tasks[t] EXCEPT !.buf = UsersUpdateOne(all, tasks[t].uid, PatchOf(tasks[t].op))],
                 UsersFile, "ua_w")
    /\ UNCHANGED <<disk, activeClients, conns, timers, usedIds, stopped, userCache, subscriptionCache, now, got>>

\* Users.updateOne, line 510, then the replies and scene.leave (lines 1399-1427,
\* 1450-1456).
UaWrite(t) ==
    /\ At(t, "ua_w")
    /\ disk' = WriteDb(UsersFile, tasks[t].buf)
    /\ GoDone(t, "done")
    /\ UNCHANGED <<activeClients, conns, timers, usedIds, stopped, userCache, subscriptionCache, now, got>>

\* ------------------------------------------------------------- addChannelScene, removeChannelScene
\* Lines 1167-1172 and 1190-1192: an admin sent channel c; Config.updateOne is called.
ChannelAction(op, c) ==
    /\ StartDb([Idle EXCEPT !.op = op, !.chan = c], ConfigFile, "ch_r")
    /\ UNCHANGED <<disk, activeClients, conns, timers, usedIds, stopped, userCache, subscriptionCache, now, got>>

\* Config.updateOne, lines 581-600: the document was read.
ChRead(t) ==
    /\ At(t, "ch_r")
    /\ LET doc == ReadResult(ConfigFile) IN
       GoDb(t, [tasks[t] EXCEPT !.buf = IF tasks[t].op = "add_channel" THEN AddToSet(doc, tasks[t].chan)
                                         ELSE Pull(doc, tasks[t].chan)],
            ConfigFile, "ch_w")
    /\ UNCHANGED <<disk, activeClients, conns, timers, usedIds, stopped, userCache, subscriptionCache, now, got>>

\* Config.updateOne, line 600, then lines 1177-1181 and 1196-1201.
ChWrite(t) ==
    /\ At(t, "ch_w")
    /\ disk' = WriteDb(ConfigFile, tasks[t].buf)
    /\ subscriptionCache' = clear(subscriptionCache)
    /\ GoDone(t, "channels_changed")
    /\ UNCHANGED <<activeClients, conns, timers, usedIds, stopped, userCache, now, got>>

\* ------------------------------------------------------------- users, channels and the gate
\* The store holds two users and a config whose requiredChannels is required.
InitStore(required) ==
    /\ dbLocks = [f \in Files |-> FALSE]
    /\ disk = [InitDisk EXCEPT
          ![UsersFile] = [st |-> "ok",
                          data |-> <<[userId |-> UserA, isBanned |-> FALSE, isAdmin |-> FALSE, language |-> En],
                                     [userId |-> UserB, isBanned |-> FALSE, isAdmin |-> TRUE, language |-> NullLang]>>],
          ![ConfigFile] = [st |-> "ok",
                           data |-> <<[key |-> "botOnline", value |-> TRUE],
                                      [key |-> "requiredChannels", value |-> required]>>]]
    /\ activeClients = [i \in AllIds |-> 0]
    /\ conns = [c \in ConnIds |-> NoConn]
    /\ timers = <<>>
    /\ tasks = [t \in TaskIds |-> Idle]
    /\ usedIds = {}
    /\ stopped = {}
    /\ InitCaches

InitUsers == InitStore(<<>>)
InitGate == \E required \in {<<>>, <<1>>} : InitStore(required)

HalfMinute == 30000             \* milliseconds between two looks at the clock

MiddlewareSteps(t) ==
    \/ I18n(t)
    \/ MwConfig(t)
    \/ MwUser(t)
    \/ CsConfig(t)
    \/ AcquireLockPoll(t)
    \/ Return(t)

\* The status cache of one user beside ban, unban, add admin, remove admin and
\* set_lang for that user.
NextUsers ==
    \/ \E l \in {0, Ar} : Interact(UserA, l)
    \/ \E op \in FlagOps : UserAction(op, UserA)
    \/ \E t \in TaskIds :
         \/ MiddlewareSteps(t)
         \/ SlAnswer(t)
         \/ SlRead(t)
         \/ SlWrite(t)
         \/ SlEdit(t)
         \/ SlFind(t)
         \/ UaFind(t)
         \/ UaRead(t)
         \/ UaWrite(t)
    \/ Tick(HalfMinute)

SpecUsers == InitUsers /\ [][NextUsers]_vars

\* ------------------------------------------------------------- a ban and the clock
TtlMs == 60000                  \* line 1619: the status entry lives 60 seconds

\* Time passes, up to half a minute beyond one TTL.
Later(d) ==
    /\ now + d <= TtlMs + HalfMinute
    /\ now' = now + d
    /\ UNCHANGED <<dbLocks, disk, activeClients, conns, timers, tasks, usedIds, stopped,
                   userCache, subscriptionCache, got>>

\* User A writes, presses buttons and changes language while an admin bans A.  The
\* ban is made at time 0 and is in users.json before the clock moves, and it is
\* never taken back: a user who is banned in users.json has been so since time 0.
BanAtOnce == now = 0 /\ UserAction("ban", UserA)
AfterBan(d) == (\A t \in TaskIds : tasks[t].op # "ban") /\ Later(d)
NextBan ==
    \/ \E l \in {0, Ar} : Interact(UserA, l)
    \/ BanAtOnce
    \/ \E t \in TaskIds :
         \/ MiddlewareSteps(t)
         \/ SlAnswer(t)
         \/ SlRead(t)
         \/ SlWrite(t)
         \/ SlEdit(t)
         \/ SlFind(t)
         \/ UaFind(t)
         \/ UaRead(t)
         \/ UaWrite(t)
    \/ AfterBan(HalfMinute)

SpecBan == InitUsers /\ [][NextBan]_vars

\* The membership cache beside add channel and remove channel.
NextGate ==
    \/ \E k \in Keys : Interact(k, 0)
    \/ \E op \in {"add_channel", "remove_channel"}, c \in Channels : ChannelAction(op, c)
    \/ \E t \in TaskIds :
         \/ MiddlewareSteps(t)
         \/ \E member \in BOOLEAN : CsMember(t, member)
         \/ CsReply(t)
         \/ ChRead(t)
         \/ ChWrite(t)
    \/ Tick(HalfMinute)

SpecGate == InitGate /\ [][NextGate]_vars

\* ------------------------------------------------------------- the version catalog
Kinds == {"bedrock", "java"}    \* the type of the version_type button

Version(kind, p) == [type |-> kind, protocol |-> p, name |-> p]

\* Versions.create, line 613.
exists(versions, v) ==
    \E i \in 1..Len(versions) : versions[i].protocol = v.protocol /\ versions[i].type = v.type

\* Two entries of the catalog with the same type and protocol.
Twice(versions) ==
    \E i, j \in 1..Len(versions) :
        i # j /\ versions[i].protocol = versions[j].protocol /\ versions[i].type = versions[j].type

\* writeDb of versions.json, lines 84-85: JSON.stringify of the entries.
WriteVersions(buf) ==
    WriteDb(VersionsFile, [i \in 1..Len(buf) |-> [buf[i] EXCEPT !.protocol = Stringify(@)]])

\* setupInitialConfig is not running: bot.launch (line 2271) comes after it.
Launched == \A t \in TaskIds : tasks[t].op # "setup" \/ tasks[t].at = "ret"

\* addVersionScene, lines 1486-1496: the protocol number arrived; Versions.create is
\* called.
AddVersion(kind, p) ==
    /\ Launched
    /\ StartDb([Idle EXCEPT !.op = "add_version", !.kind = kind, !.proto = p], VersionsFile, "vc_r")
    /\ UNCHANGED <<disk, activeClients, conns, timers, usedIds, stopped, userCache, subscriptionCache, now, got>>

\* Line 1488: parseInt of a text of more than 308 digits.
MaxVersions == 3                \* no such add once the catalog has this many entries
AddHugeVersion(kind) ==
    /\ Len(ReadResult(VersionsFile)) < MaxVersions
    /\ AddVersion(kind, Infinity)

\* Versions.create, lines 611-620: the catalog was read.
VcRead(t) ==
    /\ At(t, "vc_r")
    /\ LET versions == ReadResult(VersionsFile)
           v == Version(tasks[t].kind, tasks[t].proto) IN
       IF exists(versions, v) THEN GoDone(t, "duplicate_11000")
       ELSE GoDb(t, [tasks[t] EXCEPT !.buf = Append(versions, v)], VersionsFile, "vc_w")
    /\ UNCHANGED <<disk, activeClients, conns, timers, usedIds, stopped, userCache, subscriptionCache, now, got>>

\* Versions.create, line 620, then line 1497.
VcWrite(t) ==
    /\ At(t, "vc_w")
    /\ disk' = WriteVersions(tasks[t].buf)
    /\ GoDone(t, "version_added")
    /\ UNCHANGED <<activeClients, conns, timers, usedIds, stopped, userCache, subscriptionCache, now, got>>

\* deleteVersionScene, lines 1521-1523: the protocol number arrived; Versions.deleteOne
\* is called.
DeleteVersion(p) ==
    /\ Launched
    /\ StartDb([Idle EXCEPT !.op = "delete_version", !.proto = p], VersionsFile, "vd_r")
    /\ UNCHANGED <<disk, activeClients, conns, timers, usedIds, stopped, userCache, subscriptionCache, now, got>>

\* Versions.deleteOne, lines 623-630: the catalog was read.
VdRead(t) ==
    /\ At(t, "vd_r")
    /\ LET versions == ReadResult(VersionsFile)
           kept == SelectSeq(versions, LAMBDA v : v.protocol # tasks[t].proto) IN
       IF Len(kept) < Len(versions)
       THEN GoDb(t, [tasks[t] EXCEPT !.buf = kept], VersionsFile, "vd_w")
       ELSE GoDone(t, "protocol_not_found")
    /\ UNCHANGED <<disk, activeClients, conns, timers, usedIds, stopped, userCache, subscriptionCache, now, got>>

\* Versions.deleteOne, line 627, then line 1524.
VdWrite(t) ==
    /\ At(t, "vd_w")
    /\ disk' = WriteVersions(tasks[t].buf)
    /\ GoDone(t, "protocol_deleted")
    /\ UNCHANGED <<activeClients, conns, timers, usedIds, stopped, userCache, subscriptionCache, now, got>>

\* ------------------------------------------------------------- setupInitialConfig
ADMIN_ID == 3
Admin == [userId |-> ADMIN_ID, isBanned |-> FALSE, isAdmin |-> TRUE, language |-> En]

\* Lines 658-662.
DefaultKeys == <<"botOnline", "adminNotifications", "requiredChannels">>
defaults(key) ==
    IF key = "botOnline" THEN TRUE ELSE IF key = "adminNotifications" THEN FALSE ELSE <<>>

\* Lines 664-669: the document with the defaults of the keys it does not define.
RECURSIVE WithDefaults(_, _)
WithDefaults(doc, i) ==
    IF i > Len(DefaultKeys) THEN doc
    ELSE WithDefaults(IF Defined(doc, DefaultKeys[i]) THEN doc
                      ELSE SetKey(doc, DefaultKeys[i], defaults(DefaultKeys[i])), i + 1)

\* Lines 677-682: the catalog the code ships (two of its thirty entries).
BEDROCK_VERSIONS == <<Version("bedrock", 1), Version("bedrock", 2)>>

\* What the three files hold, as readDb returns it.
Stored == <<ReadResult(UsersFile), ReadResult(ConfigFile), ReadResult(VersionsFile)>>

\* The process starts, lines 2267-2270 and 641-644: nothing is in flight;
\* setupInitialConfig reads users.json.  snap is history: the store at the start.
Setup == [Idle EXCEPT !.op = "setup", !.snap = Stored]
startBotApp ==
    /\ \A t \in TaskIds : tasks[t].at = "idle"
    /\ StartDb(Setup, UsersFile, "su_users")
    /\ UNCHANGED <<disk, activeClients, conns, timers, usedIds, stopped, userCache, subscriptionCache, now, got>>

\* Lines 644-657: the users were read.
SuUsers(t) ==
    /\ At(t, "su_users")
    /\ LET users == ReadResult(UsersFile)
           i == FindUser(users, ADMIN_ID, 1) IN
       IF i = 0
       THEN GoDb(t, [tasks[t] EXCEPT !.buf = Append(users, Admin)], UsersFile, "su_users_w")
       ELSE IF ~users[i].isAdmin
       THEN GoDb(t, [tasks[t] EXCEPT !.buf = [users EXCEPT ![i].isAdmin = TRUE]], UsersFile, "su_users_w")
       ELSE GoDb(t, tasks[t], ConfigFile, "su_conf")
    /\ UNCHANGED <<disk, activeClients, conns, timers, usedIds, stopped, userCache, subscriptionCache, now, got>>

\* Lines 649 and 653, then line 657.
SuUsersWrite(t) ==
    /\ At(t, "su_users_w")
    /\ disk' = WriteDb(UsersFile, tasks[t].buf)
    /\ GoDb(t, [tasks[t] EXCEPT !.buf = <<>>], ConfigFile, "su_conf")
    /\ UNCHANGED <<activeClients, conns, timers, usedIds, stopped, userCache, subscriptionCache, now, got>>

\* Lines 657-675: the config was read.
SuConfig(t) ==
    /\ At(t, "su_conf")
    /\ LET config == ReadResult(ConfigFile)
           configUpdated == WithDefaults(config, 1) # config IN
       IF configUpdated
       THEN GoDb(t, [tasks[t] EXCEPT !.buf = WithDefaults(config, 1)], ConfigFile, "su_conf_w")
       ELSE GoDb(t, tasks[t], VersionsFile, "su_count")
    /\ UNCHANGED <<disk, activeClients, conns, timers, usedIds, stopped, userCache, subscriptionCache, now, got>>

\* Line 671, then line 675.
SuConfigWrite(t) ==
    /\ At(t, "su_conf_w")
    /\ disk' = WriteDb(ConfigFile, tasks[t].buf)
    /\ GoDb(t, [tasks[t] EXCEPT !.buf = <<>>], VersionsFile, "su_count")
    /\ UNCHANGED <<activeClients, conns, timers, usedIds, stopped, userCache, subscriptionCache, now, got>>

\* Lines 675-683: the catalog was counted (seedNever: without the seeding).
seedNever(versionsCount) == FALSE
seed(versionsCount) == versionsCount = 0
\* setupInitialConfig has returned; snap stays for the record.
GoLaunched(t) ==
    /\ dbLocks' = Unlocked(t)
    /\ tasks' = [tasks EXCEPT ![t] = [Finished(t, "launched") EXCEPT !.snap = tasks[t].snap]]

SuCount(t) ==
    /\ At(t, "su_count")
    /\ IF seed(Len(ReadResult(VersionsFile)))
       THEN GoDb(t, [tasks[t] EXCEPT !.buf = BEDROCK_VERSIONS], VersionsFile, "su_seed")
       ELSE GoLaunched(t)
    /\ UNCHANGED <<disk, activeClients, conns, timers, usedIds, stopped, userCache, subscriptionCache, now, got>>

\* Line 683, then bot.launch.
SuSeed(t) ==
    /\ At(t, "su_seed")
    /\ disk' = WriteVersions(tasks[t].buf)
    /\ GoLaunched(t)
    /\ UNCHANGED <<activeClients, conns, timers, usedIds, stopped, userCache, subscriptionCache, now, got>>

\* The process starts on a store in any condition: each file missing, malformed or
\* holding earlier content.
InitStartup ==
    /\ \E users \in {[st |-> "missing", data |-> <<>>],
                     [st |-> "ok", data |-> <<[userId |-> UserA, isBanned |-> TRUE, isAdmin |-> TRUE, language |-> Ar],
                                              [userId |-> ADMIN_ID, isBanned |-> FALSE, isAdmin |-> FALSE, language |-> Ar]>>],
                     [st |-> "ok", data |-> <<Admin>>]},
          config \in {[st |-> "missing", data |-> <<>>],
                      [st |-> "malformed", data |-> <<>>],
                      [st |-> "ok", data |-> <<[key |-> "botOnline", value |-> FALSE]>>]},
          versions \in {[st |-> "missing", data |-> <<>>],
                        [st |-> "ok", data |-> <<>>],
                        [st |-> "ok", data |-> <<Version("java", 2)>>]} :
         disk = [InitDisk EXCEPT ![UsersFile] = users, ![ConfigFile] = config, ![VersionsFile] = versions]
    /\ dbLocks = [f \in Files |-> f = UsersFile]
    /\ tasks = [t \in TaskIds |-> IF t = 1 THEN [Setup EXCEPT !.pc = "su_users", !.at = "io", !.file = UsersFile]
                                  ELSE Idle]
    /\ activeClients = [i \in AllIds |-> 0]
    /\ conns = [c \in ConnIds |-> NoConn]
    /\ timers = <<>>
    /\ usedIds = {}
    /\ stopped = {}
    /\ InitCaches

StartupSteps ==
    \/ \E p \in Protocols : DeleteVersion(p)
    \/ \E t \in TaskIds :
         \/ SuUsers(t)
         \/ SuUsersWrite(t)
         \/ SuConfig(t)
         \/ SuConfigWrite(t)
         \/ SuCount(t)
         \/ SuSeed(t)
         \/ VcRead(t)
         \/ VcWrite(t)
         \/ VdRead(t)
         \/ VdWrite(t)
         \/ AcquireLockPoll(t)
         \/ Return(t)

\* Startup, restarts of the process, and the catalog's add and delete.
NextStartup ==
    \/ startBotApp
    \/ \E kind \in Kinds, p \in Protocols : AddVersion(kind, p)
    \/ StartupSteps

SpecStartup == InitStartup /\ [][NextStartup]_vars

\* One startup, then adds of a protocol number of more than 308 digits, and deletes.
NextHugeProtocol ==
    \/ \E kind \in Kinds : AddHugeVersion(kind)
    \/ StartupSteps
SpecHugeProtocol == InitStartup /\ [][NextHugeProtocol]_vars

\* ------------------------------------------------------------- bot.start
\* User k sends /start: the middlewares run first.
SlashStart(k) == Arrives("/start", k, 0)

\* Users.create, lines 490-499: the array it hands to writeDb (createAlone: an
\* array of the new user only).
NewUser(k) == [userId |-> k, isBanned |-> FALSE, isAdmin |-> k = ADMIN_ID, language |-> NullLang]
createAlone(users, k) == <<NewUser(k)>>
create(users, k) == Append(users, NewUser(k))

\* Lines 1797-1824: Users.findOne returned.
BsFind(t) ==
    /\ At(t, "bs_find")
    /\ IF findOne(ReadResult(UsersFile), tasks[t].uid) = NoUser
       THEN GoDb(t, tasks[t], UsersFile, "bs_create_r") /\ UNCHANGED subscriptionCache
       ELSE Check(t, [tasks[t] EXCEPT !.caller = "bot.start"], subscriptionCache)
    /\ UNCHANGED <<disk, activeClients, conns, timers, usedIds, stopped, userCache, now, got>>

\* Users.create, lines 490-499: the users were read.
BsCreateRead(t) ==
    /\ At(t, "bs_create_r")
    /\ GoDb(t, [tasks[t] EXCEPT !.buf = create(ReadResult(UsersFile), tasks[t].uid)], UsersFile, "bs_create_w")
    /\ UNCHANGED <<disk, activeClients, conns, timers, usedIds, stopped, userCache, subscriptionCache, now, got>>

\* Users.create, line 500, then the language prompt is sent (line 1809).
BsCreateWrite(t) ==
    /\ At(t, "bs_create_w")
    /\ disk' = WriteDb(UsersFile, tasks[t].buf)
    /\ GoNet(t, [tasks[t] EXCEPT !.buf = <<>>], "bs_prompt")
    /\ UNCHANGED <<activeClients, conns, timers, usedIds, stopped, userCache, subscriptionCache, now, got>>

\* Lines 1809-1814: the prompt was sent (sent), or failed and Users.updateOne is
\* called with language 'en'.
BsPrompt(t, sent) ==
    /\ tasks[t].pc = "bs_prompt" /\ tasks[t].at = "net"
    /\ IF sent THEN GoDone(t, "language_prompt")
       ELSE GoDb(t, tasks[t], UsersFile, "bs_en_r")
    /\ UNCHANGED <<disk, activeClients, conns, timers, usedIds, stopped, userCache, subscriptionCache, now, got>>

\* Users.updateOne, lines 504-511: the users were read.
BsEnRead(t) ==
    /\ At(t, "bs_en_r")
    /\ LET all == ReadResult(UsersFile) IN
       IF FindUser(all, tasks[t].uid, 1) = 0
       THEN Check(t, [tasks[t] EXCEPT !.caller = "bot.start"], subscriptionCache)
       ELSE /\ GoDb(t, [tasks[t] EXCEPT !.buf = UsersUpdateOne(all, tasks[t].uid, [language |-> En])],
                    UsersFile, "bs_en_w")
            /\ UNCHANGED subscriptionCache
    /\ UNCHANGED <<disk, activeClients, conns, timers, usedIds, stopped, userCache, now, got>>

\* Users.updateOne, line 510, then checkUserSubscription (line 1824).
BsEnWrite(t) ==
    /\ At(t, "bs_en_w")
    /\ disk' = WriteDb(UsersFile, tasks[t].buf)
    /\ Check(t, [tasks[t] EXCEPT !.buf = <<>>, !.caller = "bot.start"], subscriptionCache)
    /\ UNCHANGED <<activeClients, conns, timers, usedIds, stopped, userCache, now, got>>

\* User B has pressed /start before; user A has not.  No channel is required.
InitFirst ==
    /\ dbLocks = [f \in Files |-> FALSE]
    /\ disk = [InitDisk EXCEPT
                 ![UsersFile] = [st |-> "ok", data |-> <<[NewUser(UserB) EXCEPT !.language = En]>>]]
    /\ activeClients = [i \in AllIds |-> 0]
    /\ conns = [c \in ConnIds |-> NoConn]
    /\ timers = <<>>
    /\ tasks = [t \in TaskIds |-> Idle]
    /\ usedIds = {}
    /\ stopped = {}
    /\ InitCaches

\* First interactions of user A, beside ban, unban, the admin toggles and set_lang.
NextFirst ==
    \/ SlashStart(UserA)
    \/ Interact(UserA, Ar)
    \/ \E op \in FlagOps : UserAction(op, UserA)
    \/ \E t \in TaskIds :
         \/ MiddlewareSteps(t)
         \/ BsFind(t)
         \/ BsCreateRead(t)
         \/ BsCreateWrite(t)
         \/ \E sent \in BOOLEAN : BsPrompt(t, sent)
         \/ BsEnRead(t)
         \/ BsEnWrite(t)
         \/ SlAnswer(t)
         \/ SlRead(t)
         \/ SlWrite(t)
         \/ SlEdit(t)
         \/ SlFind(t)
         \/ UaFind(t)
         \/ UaRead(t)
         \/ UaWrite(t)

SpecFirst == InitFirst /\ [][NextFirst]_vars

\* ------------------------------------------------------------- sessions beside catalog edits
\* One endpoint with autoRestart on; the catalog holds protocol 1.
InitCatalog ==
    /\ dbLocks = [f \in Files |-> FALSE]
    /\ disk = [InitDisk EXCEPT
                 ![ServersFile] = [st |-> "ok", data |-> <<[SeedServer(SeedA, 1, 1, 1) EXCEPT !.autoRestart = TRUE]>>],
                 ![VersionsFile] = [st |-> "ok", data |-> <<Version("bedrock", 1)>>]]
    /\ activeClients = [i \in AllIds |-> 0]
    /\ conns = [c \in ConnIds |-> NoConn]
    /\ timers = <<>>
    /\ tasks = [t \in TaskIds |-> Idle]
    /\ usedIds = {SeedA}
    /\ stopped = {}
    /\ InitCaches

\* Starts, lost connections and restarts of the endpoint, while an admin deletes
\* protocol 1 from the catalog and adds protocol 2.  Nobody stops the endpoint or
\* turns autoRestart off, so every lost connection schedules a restart.
NextCatalog ==
    \/ StartBot(SeedA)
    \/ RestartFire
    \/ AddVersion("bedrock", 2)
    \/ DeleteVersion(1)
    \/ \E c \in ConnIds : ConnLost(c)
    \/ \E t \in TaskIds :
         \/ AcquireLockPoll(t)
         \/ Return(t)
         \/ StartFound(t)
         \/ StartSearchingRead(t)
         \/ StartSearchingWrite(t)
         \/ StartVersions(t)
         \/ StartProbe(t)
         \/ \E r \in {0} \cup Protocols : ProbeResult(t, r)
         \/ UnsupportedRead(t)
         \/ UnsupportedWrite(t)
         \/ ConnectingRead(t)
         \/ ConnectingWrite(t)
         \/ ConnectEdited(t)
         \/ FailedRead(t)
         \/ FailedWrite(t)
         \/ DiscFound(t)
         \/ DiscReconnRead(t)
         \/ DiscReconnWrite(t)
         \/ DiscNotify(t)
         \/ VcRead(t)
         \/ VcWrite(t)
         \/ VdRead(t)
         \/ VdWrite(t)

SpecCatalog == InitCatalog /\ [][NextCatalog]_vars

\* ------------------------------------------------------------- the two events of a connection
Events == {"disconnect", "error"}

\* client.removeAllListeners(), line 802 (removeNoListeners: without it).
removeNoListeners(conn) == conn
removeAllListeners(conn) == [conn EXCEPT !.listeners = FALSE]

\* A connection that has emitted one of its two events is lost; after the second
\* one nothing more comes from it.
closing(conn) == IF conn.state = "lost" THEN NoConn ELSE [conn EXCEPT !.state = "lost"]

\* handleDisconnect, lines 799-804: the entry is deleted, the listeners are removed
\* and Servers.findById is called, all in the turn of the event.
handleDisconnect(c) ==
    /\ conns' = [conns EXCEPT ![c] = closing(removeAllListeners(conns[c]))]
    /\ activeClients' = forget(conns[c].sid)
    /\ StartDb([Idle EXCEPT !.op = "disc", !.sid = conns[c].sid, !.vers = conns[c].vers,
                             !.flag = conns[c].auto], ServersFile, "hd_find")
    /\ UNCHANGED <<disk, timers, usedIds, stopped, userCache, subscriptionCache, now, got>>

\* An event nobody listens to: nothing of the program runs.
Unheard(c) ==
    /\ conns' = [conns EXCEPT ![c] = closing(conns[c])]
    /\ UNCHANGED <<dbLocks, disk, activeClients, timers, tasks, usedIds, stopped,
                   userCache, subscriptionCache, now, got>>

\* An 'error' event without a listener is thrown by emit; the file installs no
\* uncaughtException handler (lines 2330-2331 are the only process.once), so the
\* process ends unless the emitting library catches: the Maps, the timers and the
\* locks are gone, the files stay.
Exit ==
    /\ tasks' = [t \in TaskIds |-> [Idle EXCEPT !.op = "exit", !.at = "exit"]]
    /\ timers' = <<>>
    /\ conns' = [c \in ConnIds |-> NoConn]
    /\ activeClients' = [i \in AllIds |-> 0]
    /\ dbLocks' = [f \in Files |-> FALSE]
    /\ userCache' = [k \in Keys |-> NoEntry]
    /\ subscriptionCache' = [k \in Keys |-> NoEntry]
    /\ UNCHANGED <<disk, usedIds, stopped, now, got>>

\* The connection emits 'disconnect' or 'error' (listeners at lines 847-848).
Emit(c, ev) ==
    /\ conns[c].state \in {"open", "live", "lost"}
    /\ IF conns[c].listeners THEN handleDisconnect(c)
       ELSE IF ev = "error" THEN Unheard(c) \/ Exit
       ELSE Unheard(c)

\* The endpoint with autoRestart on or off.
InitEvents ==
    /\ dbLocks = [f \in Files |-> FALSE]
    /\ \E auto \in BOOLEAN :
         disk = [InitDisk EXCEPT
                   ![ServersFile] = [st |-> "ok", data |-> <<[SeedServer(SeedA, 1, 1, 1) EXCEPT !.autoRestart = auto]>>],
                   ![VersionsFile] = [st |-> "ok", data |-> <<Version("bedrock", 1)>>]]
    /\ activeClients = [i \in AllIds |-> 0]
    /\ conns = [c \in ConnIds |-> NoConn]
    /\ timers = <<>>
    /\ tasks = [t \in TaskIds |-> Idle]
    /\ usedIds = {SeedA}
    /\ stopped = {}
    /\ InitCaches

\* Starts and restarts of the endpoint whose connections emit up to two events each.
NextEvents ==
    \/ StartBot(SeedA)
    \/ RestartFire
    \/ \E c \in ConnIds : ConnSpawn(c)
    \/ \E c \in ConnIds, ev \in Events : Emit(c, ev)
    \/ \E t \in TaskIds :
         \/ AcquireLockPoll(t)
         \/ Return(t)
         \/ StartFound(t)
         \/ StartSearchingRead(t)
         \/ StartSearchingWrite(t)
         \/ StartVersions(t)
         \/ StartProbe(t)
         \/ \E r \in {0} \cup Protocols : ProbeResult(t, r)
         \/ UnsupportedRead(t)
         \/ UnsupportedWrite(t)
         \/ ConnectingRead(t)
         \/ ConnectingWrite(t)
         \/ ConnectEdited(t)
         \/ FailedRead(t)
         \/ FailedWrite(t)
         \/ SpawnRead(t)
         \/ SpawnWrite(t)
         \/ DiscFound(t)
         \/ DiscReconnRead(t)
         \/ DiscReconnWrite(t)
         \/ DiscStoppedRead(t)
         \/ DiscStoppedWrite(t)
         \/ DiscNotify(t)

SpecEvents == InitEvents /\ [][NextEvents]_vars

\* ------------------------------------------------------------- properties of the session manager
\* C1: for every endpoint id at most one live watcher connection exists at any
\* instant, whatever the interleaving of start, stop, callbacks and restarts: of
\* several concurrent starts only one opens a connection.
C1_OneSessionPerEndpoint ==
    \A sid \in AllIds : Cardinality({c \in ConnIds : conns[c].state # "none" /\ conns[c].sid = sid}) <= 1

\* C2: once stop has taken effect on an existing endpoint, and until the owner
\* starts it again or toggles autoRestart, the persisted record has status
\* Stopped and autoRestart = false and the endpoint has no Session.
C2_StoppedStaysStopped ==
    \A sid \in stopped :
        LET s == findById(ReadResult(ServersFile), sid) IN
        s # NoServer => s.status = "Stopped" /\ ~s.autoRestart /\ activeClients[sid] = 0

\* C3: a scheduled restart that fires looks at the persisted record first: it
\* probes only if the record still exists, is not Stopped and has autoRestart.
C3_RestartRechecksRecord ==
    [][\A t \in TaskIds :
          (tasks[t].op # "restart" /\ tasks'[t].op = "restart") =>
              LET s == findById(ReadResult(ServersFile), tasks'[t].sid) IN
              s # NoServer /\ s.autoRestart /\ s.status # "Stopped"]_vars

C5_UnsupportedNoSession ==
    [][\A t \in TaskIds :
          LET sid == tasks[t].sid
              new == findById(ReadResult(ServersFile), sid)' IN
          /\ (AtNet(t, "bb_probe") /\ tasks'[t] # tasks[t] /\ tasks'[t].proto \notin tasks[t].vers \cup {0}) =>
                 /\ tasks'[t].pc = "bb_uns_r"
                 /\ conns' = conns /\ activeClients' = activeClients
          /\ (tasks[t].pc \in {"bb_uns_r", "bb_uns_w"} /\ tasks'[t] # tasks[t]) =>
                 /\ conns' = conns /\ activeClients' = activeClients
                 /\ tasks'[t].pc \in {"bb_uns_r", "bb_uns_w", "unsupported"}
                 /\ tasks'[t].at = "ret" => (new # NoServer => new.status = "Unsupported")]_vars

\* A start has ended on the Unsupported path: status Unsupported, no Session.
C5_EndedUnsupported ==
    \E t \in TaskIds :
        /\ Returned(t, "start", "unsupported")
        /\ findById(ReadResult(ServersFile), tasks[t].sid).status = "Unsupported"
        /\ activeClients[tasks[t].sid] = 0
        /\ \A c \in ConnIds : conns[c].state = "none"

\* ------------------------------------------------------------- properties of the record store
\* C6: the array reorderServers writes holds exactly the records that are in the
\* table at the moment of the write, each of them unchanged except the
\* serverName of the renumbered owner's records, whatever else is in flight.
C6_RenumberKeepsRecords ==
    [][\A t \in TaskIds :
          (At(t, "ro_w") /\ tasks'[t].pc \in {"added", "deleted"}) =>
              LET cur == ReadResult(ServersFile)
                  new == disk'[ServersFile].data IN
              /\ Len(new) = Len(cur)
              /\ \A i \in 1..Len(cur) : \E j \in 1..Len(new) :
                    /\ new[j].id = cur[i].id
                    /\ [new[j] EXCEPT !.serverName = cur[i].serverName] = cur[i]
                    /\ cur[i].userId # tasks[t].uid => new[j] = cur[i]]_vars

\* A renumbering has ended in a table that holds another owner's record, while
\* another operation on the table is in flight.
C6_RenumberedBesideOthers ==
    \E t \in TaskIds :
        /\ Returned(t, "wizard", "added")
        /\ \E i \in 1..Len(ReadResult(ServersFile)) : ReadResult(ServersFile)[i].userId # tasks[t].uid
        /\ \E i \in 1..Len(ReadResult(ServersFile)) : ReadResult(ServersFile)[i].id = tasks[t].sid
        /\ \E u \in TaskIds : tasks[u].at \in {"lock", "io"}

\* C7: when reorderServers has written, the names of the owner's N records are
\* the numbers 1..N, each once, in ascending order of record id.
C7_NamesContiguousById ==
    [][\A t \in TaskIds :
          (At(t, "ro_w") /\ tasks'[t].pc \in {"added", "deleted"}) =>
              LET mine == OfOwner(disk'[ServersFile].data, tasks[t].uid) IN
              /\ \A i \in 1..Len(mine) : mine[i].serverName \in 1..Len(mine)
              /\ \A i, j \in 1..Len(mine) :
                    mine[i].id < mine[j].id <=> mine[i].serverName < mine[j].serverName]_vars

\* Of a < b < c the owner has deleted b: a is number 1 and c is number 2.
C7_DeletedMiddle ==
    /\ \E t \in TaskIds : Returned(t, "delete", "deleted") /\ tasks[t].sid = SeedB
    /\ Len(ReadResult(ServersFile)) = 2
    /\ findById(ReadResult(ServersFile), SeedA).serverName = 1
    /\ findById(ReadResult(ServersFile), SeedC).serverName = 2

\* C8: at most one caller at a time is between acquireLock(file) and
\* releaseLock(file), for every table file.
C8_LockExclusive ==
    \A f \in Files : Cardinality({t \in TaskIds : tasks[t].at = "io" /\ tasks[t].file = f}) <= 1

\* One caller holds the lock of a table and another one sleeps on it.
C8_OneHoldsOneWaits ==
    \E t, u \in TaskIds :
        /\ tasks[t].at = "io" /\ tasks[u].at = "lock"
        /\ tasks[t].file = tasks[u].file
        /\ dbLocks[tasks[t].file]

\* C9: a lock is held only while a store call on its table is in progress: no
\* readDb or writeDb that has returned or thrown has left it held.
C9_LockReleased ==
    \A f \in Files : dbLocks[f] => \E t \in TaskIds : tasks[t].at = "io" /\ tasks[t].file = f

\* A store call has thrown an I/O error and the lock of its table is free.
C9_ThrownAndFree ==
    /\ \E t \in TaskIds : tasks[t].at = "ret" /\ tasks[t].pc = "store_error"
    /\ \A t \in TaskIds : tasks[t].at # "io"
    /\ \A f \in Files : ~dbLocks[f]

\* C10: what create, updateOne and deleteOne write is the table as it is at the
\* moment of the write with the call's own change and nothing else.
C10_WriteOnCurrent ==
    [][\A t \in TaskIds :
          LET cur == ReadResult(ServersFile)
              new == disk'[ServersFile].data
              done == tasks'[t] # tasks[t] /\ tasks'[t].pc # "store_error" IN
          /\ (At(t, "tg_w") /\ done) =>
                 /\ Len(new) = Len(cur)
                 /\ \A i \in 1..Len(cur) :
                       new[i] = IF cur[i].id = tasks[t].sid
                                THEN [cur[i] EXCEPT !.autoRestart = ~tasks[t].flag] ELSE cur[i]
          /\ (At(t, "wz_create_w") /\ done) =>
                 /\ Len(new) = Len(cur) + 1
                 /\ \A i \in 1..Len(cur) : new[i] = cur[i]
                 /\ new[Len(new)].id = tasks[t].sid /\ new[Len(new)].userId = tasks[t].uid
                 /\ new[Len(new)].addr = tasks[t].addr /\ new[Len(new)].status = "Stopped"
          /\ (At(t, "dl_w") /\ done) =>
                 /\ Len(new) < Len(cur)
                 /\ \A i \in 1..Len(cur) :
                       (cur[i].id = tasks[t].sid /\ cur[i].userId = tasks[t].uid)
                           <=> ~(\E j \in 1..Len(new) : new[j] = cur[i])
                 /\ \A j \in 1..Len(new) : \E i \in 1..Len(cur) : new[j] = cur[i]]_vars

\* An insert and an update that ran concurrently have both returned and both are
\* in the table.
C10_BothTookEffect ==
    \E t, u \in TaskIds :
        /\ Returned(t, "toggle", "toggled") /\ Returned(u, "wizard", "added")
        /\ tasks[t].sid # tasks[u].sid
        /\ findById(ReadResult(ServersFile), tasks[t].sid).autoRestart
        /\ findById(ReadResult(ServersFile), tasks[u].sid) # NoServer

\* C11: with no other writer, the record findOne returns after Servers.create
\* is equal to the record create returned, and the record it returns after
\* updateOne is the old one with exactly the patched field changed, every other
\* record being unchanged.
C11_RoundTrip ==
    [][\A t \in TaskIds :
          LET sid == tasks[t].sid
              done == tasks'[t] # tasks[t] /\ tasks'[t].pc # "store_error" IN
          /\ (At(t, "wz_create_w") /\ done) =>
                 findById(ReadResult(ServersFile), sid)'
                     = NewServer(sid, tasks[t].uid, 0, tasks[t].addr)
          /\ (At(t, "tg_w") /\ done) =>
                 /\ findById(ReadResult(ServersFile), sid)'
                        = [findById(ReadResult(ServersFile), sid) EXCEPT !.autoRestart = ~tasks[t].flag]
                 /\ \A id \in AllIds \ {sid} :
                        findById(ReadResult(ServersFile), id)' = findById(ReadResult(ServersFile), id)]_vars

C13_CacheTtl ==
    [][\A c \in Caches, k \in Keys :
          LET e == CacheOf(c)[k]
              live == e.has /\ now < e.setAt + e.ttl * 1000 IN
          (got' # got /\ got'.cache = c /\ got'.key = k) =>
              /\ \A d \in Caches, j \in Keys : (d # c \/ j # k) => CacheOf(d)'[j] = CacheOf(d)[j]
              /\ got'.call = "get" =>
                     /\ got'.value = IF live THEN e.value ELSE "null"
                     /\ CacheOf(c)'[k] = IF live THEN e ELSE NoEntry
              /\ got'.call = "set" =>
                     /\ CacheOf(c)'[k].has
                     /\ CacheOf(c)'[k].value = got'.value
                     /\ CacheOf(c)'[k].expiry = now + got'.ttl * 1000
                     /\ CacheOf(c)'[k].setAt = now /\ CacheOf(c)'[k].ttl = got'.ttl]_vars

\* An entry set with ttl 60 was found after 30 seconds and is gone, after a
\* miss, 61 seconds after it was set.
C13_HitThenExpired ==
    /\ now = 61000
    /\ got = [call |-> "get", cache |-> "userCache", key |-> 1, value |-> "null", ttl |-> 0]
    /\ userCache[1] = NoEntry
    /\ subscriptionCache[1].has /\ subscriptionCache[1].setAt = 0 /\ subscriptionCache[1].ttl = 60

\* C14: an attempt to add an endpoint whose (host, port) another owner has
\* already added ends with 'added_by_other' and writes nothing, and at no time
\* do two records of servers.json hold the same (host, port). (A lookup that
\* fails with an I/O error ends the attempt with that error instead.)
C14_NoSharedAddress ==
    /\ [](\A i, j \in 1..Len(ReadResult(ServersFile)) :
             ReadResult(ServersFile)[i].addr = ReadResult(ServersFile)[j].addr => i = j)
    /\ [][\A t \in TaskIds :
             (/\ At(t, "wz_dupother") /\ tasks'[t] # tasks[t] /\ tasks'[t].pc # "store_error"
              /\ \E i \in 1..Len(ReadResult(ServersFile)) :
                    /\ ReadResult(ServersFile)[i].addr = Stringify(tasks[t].addr)
                    /\ ReadResult(ServersFile)[i].userId # tasks[t].uid)
             => (tasks'[t].pc = "added_by_other" /\ tasks'[t].at = "ret" /\ disk' = disk)]_vars

\* C15: once statusBedrock or bedrock.createClient has thrown, the attempt opens
\* no connection, registers no Session, schedules nothing and does not probe
\* again; it writes ConnectFailed to the record (if the record still exists),
\* changes nothing else in servers.json, and ends with the 'failed' signal
\* rather than with an exception.
C15_FailureCaught ==
    [][\A t \in TaskIds :
          LET sid == tasks[t].sid
              Catching == {"bb_fail_r", "bb_fail_w"}
              old == findById(ReadResult(ServersFile), sid)
              new == findById(ReadResult(ServersFile), sid)' IN
          /\ (tasks[t].pc \notin Catching /\ tasks'[t].pc \in Catching) =>
                 /\ tasks[t].op \in {"start", "restart"}
                 /\ conns' = conns /\ timers' = timers
                 /\ activeClients'[sid] = 0
                 /\ \A id \in AllIds \ {sid} : activeClients'[id] = activeClients[id]
          /\ (tasks'[t] # tasks[t] /\ tasks[t].pc \in Catching) =>
                 /\ tasks'[t].pc \in Catching \cup {"failed"}
                 /\ conns' = conns /\ timers' = timers /\ activeClients' = activeClients
                 /\ tasks'[t].at = "ret" =>
                        /\ tasks'[t].pc = "failed"
                        /\ old # NoServer => new = [old EXCEPT !.status = "ConnectFailed"]
                        /\ old = NoServer => disk' = disk
                        /\ \A id \in AllIds \ {sid} :
                               findById(ReadResult(ServersFile), id)' = findById(ReadResult(ServersFile), id)]_vars

\* A start that threw has ended: ConnectFailed is on disk and the endpoint has
\* no Session and no connection.
C15_FailedStart ==
    \E t \in TaskIds :
        /\ Returned(t, "start", "failed")
        /\ findById(ReadResult(ServersFile), tasks[t].sid).status = "ConnectFailed"
        /\ activeClients[tasks[t].sid] = 0
        /\ \A c \in ConnIds : conns[c].sid # tasks[t].sid

\* C16: a start that finds no record for its endpoint id ends at once with
\* 'not_found': nothing is written, no probe follows, and no connection, Session
\* or timer is created.
C16_StartNotFound ==
    [][\A t \in TaskIds :
          (/\ tasks[t].op = "start" /\ At(t, "sb_find") /\ tasks'[t] # tasks[t]
           /\ findById(ReadResult(ServersFile), tasks[t].sid) = NoServer)
          => /\ tasks'[t] = Finished(t, "not_found")
             /\ disk' = disk /\ conns' = conns /\ activeClients' = activeClients /\ timers' = timers]_vars

\* A start of a deleted endpoint has ended with 'not_found'.
C16_NotFoundGiven ==
    \E t \in TaskIds :
        /\ Returned(t, "start", "not_found")
        /\ findById(ReadResult(ServersFile), tasks[t].sid) = NoServer
        /\ activeClients[tasks[t].sid] = 0

\* C17: a start that finds the record and, at its presence check, a Session for
\* the endpoint ends at once with 'already_running': servers.json, the map, the
\* connections and the timers are as before, and no probe follows.
C17_StartAlreadyRunning ==
    [][\A t \in TaskIds :
          (/\ tasks[t].op = "start" /\ At(t, "sb_find") /\ tasks'[t] # tasks[t]
           /\ findById(ReadResult(ServersFile), tasks[t].sid) # NoServer
           /\ activeClients[tasks[t].sid] # 0)
          => /\ tasks'[t] = Finished(t, "already_running")
             /\ disk' = disk /\ conns' = conns /\ activeClients' = activeClients /\ timers' = timers]_vars

\* A start has ended with 'already_running' and the Session it met is still there
\* with its connection open.
C17_AlreadyRunningGiven ==
    \E t \in TaskIds :
        /\ Returned(t, "start", "already_running")
        /\ activeClients[tasks[t].sid] # 0
        /\ conns[activeClients[tasks[t].sid]].state = "open"
        /\ conns[activeClients[tasks[t].sid]].sid = tasks[t].sid

\* C18: readDb of a file that is missing or malformed returns the default of
\* that file, an empty list for users.json, servers.json and versions.json and
\* an empty document for config.json, and throws nothing; of a readable file it
\* returns the content; any other failure is rethrown to the caller.  The file
\* is not written and the lock is free afterwards in every case.
C18_ReadDefaults ==
    [][\A t \in TaskIds :
          (tasks[t].op = "read" /\ At(t, "rd") /\ tasks'[t] # tasks[t]) =>
              LET f == tasks[t].file
                  kind == IF f = "config.json" THEN "document" ELSE "list" IN
              /\ disk[f].st \in {"missing", "malformed"} =>
                     tasks'[t].at = "ret" /\ tasks'[t].pc = kind /\ tasks'[t].snap = <<>>
              /\ disk[f].st = "ok" =>
                     tasks'[t].at = "ret" /\ tasks'[t].pc = kind /\ tasks'[t].snap = disk[f].data
              /\ disk[f].st = "unreadable" =>
                     tasks'[t].at = "ret" /\ tasks'[t].pc = "store_error"
              /\ disk' = disk /\ ~dbLocks'[f]]_vars

\* A read of a malformed config.json has returned the empty document and a read
\* of a missing servers.json the empty list.
C18_DefaultsReturned ==
    /\ disk[ConfigFile].st = "malformed" /\ disk[ServersFile].st = "missing"
    /\ disk[UsersFile].st = "ok" /\ disk[VersionsFile].st = "ok"
    /\ \E t, u \in TaskIds :
          /\ Returned(t, "read", "document") /\ tasks[t].snap = <<>>
          /\ Returned(u, "read", "list") /\ tasks[u].snap = <<>>

\* C19: handleDisconnect decides on the record as findById returns it when the
\* connection is lost, whatever the record was when the start read it: with
\* autoRestart it writes Reconnecting and schedules one restart, and nothing
\* else in the handler schedules anything; without it the handler writes Stopped
\* and schedules nothing; with no record it writes nothing and schedules
\* nothing.  The record is still as it was re-read when the status is written.
C19_DisconnectDecides ==
    [][\A t \in TaskIds :
          (tasks[t].op = "disc" /\ tasks'[t] # tasks[t]) =>
              LET sid == tasks[t].sid
                  cur == findById(ReadResult(ServersFile), sid)
                  new == findById(ReadResult(ServersFile), sid)'
                  decided == tasks'[t].pc = "hd_user" IN
              /\ At(t, "hd_find") =>
                     /\ tasks'[t].pc = (IF cur # NoServer /\ cur.autoRestart THEN "hd_rc_r" ELSE "hd_st_r")
                     /\ timers' = timers /\ disk' = disk
              /\ tasks[t].pc \in {"hd_rc_r", "hd_rc_w"} =>
                     /\ tasks[t].at = "io" => (cur # NoServer /\ cur.autoRestart)
                     /\ decided => /\ new = [cur EXCEPT !.status = "Reconnecting"]
                                   /\ timers' = Append(timers, [sid |-> sid, vers |-> tasks[t].vers])
                     /\ ~decided => timers' = timers /\ disk' = disk
              /\ tasks[t].pc \in {"hd_st_r", "hd_st_w"} =>
                     /\ timers' = timers
                     /\ tasks[t].at = "io" => (cur = NoServer \/ ~cur.autoRestart)
                     /\ decided => /\ cur # NoServer => new = [cur EXCEPT !.status = "Stopped"]
                                   /\ cur = NoServer => disk' = disk
                     /\ ~decided => disk' = disk
              /\ tasks[t].pc = "hd_user" => timers' = timers /\ disk' = disk]_vars

\* The handler of a connection whose start read autoRestart false has written
\* Reconnecting and scheduled the restart, the flag having been switched on since.
C19_DecidedOnReread ==
    \E t \in TaskIds :
        /\ tasks[t].op = "disc" /\ tasks[t].pc = "hd_user" /\ ~tasks[t].flag
        /\ findById(ReadResult(ServersFile), tasks[t].sid).status = "Reconnecting"
        /\ \E i \in 1..Len(timers) : timers[i].sid = tasks[t].sid

\* C20: in the turn in which handleDisconnect is called the endpoint's map entry
\* is gone, before the handler's first read of servers.json; so the map never
\* names a connection that has been lost, and a start that is answered
\* 'already_running' has met the Session of a connection that still exists.
C20_SessionRemovedFirst ==
    /\ [](\A sid \in AllIds :
             activeClients[sid] # 0 =>
                 /\ conns[activeClients[sid]].state \in {"open", "live"}
                 /\ conns[activeClients[sid]].sid = sid)
    /\ [][\A t \in TaskIds :
             /\ (tasks[t].op # "disc" /\ tasks'[t].op = "disc") =>
                    /\ tasks'[t].pc = "hd_find" /\ disk' = disk
                    /\ activeClients'[tasks'[t].sid] = 0
             /\ (tasks[t].op = "start" /\ tasks'[t] # tasks[t] /\ tasks'[t].pc = "already_running") =>
                    /\ activeClients[tasks[t].sid] # 0
                    /\ conns[activeClients[tasks[t].sid]].state \in {"open", "live"}]_vars

\* A handler has not read the record yet and a start of the same endpoint has
\* already passed the presence check.
C20_StartedDuringHandler ==
    \E t, u \in TaskIds :
        /\ tasks[t].op = "disc" /\ tasks[t].pc = "hd_find"
        /\ tasks[u].op = "start" /\ tasks[u].pc \in {"sb_r", "sb_w"}
        /\ tasks[u].sid = tasks[t].sid
        /\ activeClients[tasks[t].sid] = 0
        /\ \A c \in ConnIds : conns[c].state = "none"

\* C21: the step of stopBot that writes the patch and reaches the teardown leaves
\* no map entry for the endpoint, whatever client.disconnect() does.
C21_StopRemovesSession ==
    [][\A t \in TaskIds :
          (tasks[t].op \in {"stop", "delete"} /\ At(t, "st_w") /\ tasks'[t] # tasks[t])
          => activeClients'[tasks[t].sid] = 0]_vars

\* C22: a sweep yields every key the map holds; when it has written the status
\* of an entry whose client reported alive, the Session is still in the map and
\* the status is Active; when it has written the status of an entry whose client
\* did not report alive, the Session is not in the map and the status is Stopped.
C22_SweepReconciles ==
    [][\A t \in TaskIds :
          (tasks[t].op = "sweep" /\ tasks'[t] # tasks[t]) =>
              LET sid == tasks[t].sid
                  new == findById(disk'[ServersFile].data, sid) IN
              /\ (At(t, "sw_w") /\ tasks'[t].pc # "sw_c_find") =>
                     IF tasks[t].flag
                     THEN new.status = "Active" /\ activeClients'[sid] # 0
                     ELSE new.status = "Stopped" /\ activeClients'[sid] = 0
              /\ tasks'[t].pc = "swept" =>
                     \A id \in AllIds : activeClients'[id] # 0 => id \in tasks[t].seen]_vars

\* C23 as the specification states it: once a store call has thrown for an
\* endpoint whose record exists, the endpoint is Unknown when the sweep leaves it.
C23_ErrorMarksUnknown ==
    [][\A t \in TaskIds :
          (/\ tasks[t].op = "sweep" /\ tasks[t].at = "io" /\ tasks'[t] # tasks[t]
           /\ tasks[t].pc \in {"sw_c_find", "sw_c_r", "sw_c_w"}
           /\ tasks'[t].pc \notin {"sw_c_r", "sw_c_w"}
           /\ findById(ReadResult(ServersFile), tasks[t].sid) # NoServer)
          => findById(disk'[ServersFile].data, tasks[t].sid).status = "Unknown"]_vars

\* C23, amended: the sweep writes nothing for an entry whose record is gone; a
\* store call that throws in the try block leads to the catch block for the same
\* endpoint, whose write, if the store accepts it, sets exactly the status to
\* Unknown, and whose own failures are ignored; no failure ends the sweep: when
\* it ends it has yielded every key the map holds.
C23_SweepSkipsAndGoesOn ==
    [][\A t \in TaskIds :
          (tasks[t].op = "sweep" /\ tasks[t].at = "io" /\ tasks'[t] # tasks[t]) =>
              LET sid == tasks[t].sid
                  old == findById(ReadResult(ServersFile), sid)
                  new == findById(disk'[ServersFile].data, sid) IN
              /\ old = NoServer =>
                     disk' = disk /\ tasks'[t].pc \notin {"sw_r", "sw_w", "sw_c_r", "sw_c_w"}
              /\ tasks[t].pc \notin {"sw_w", "sw_c_w"} => disk' = disk
              /\ tasks[t].pc = "sw_c_w" => (disk' = disk \/ new = [old EXCEPT !.status = "Unknown"])
              /\ \A id \in AllIds \ {sid} :
                     findById(disk'[ServersFile].data, id) = findById(ReadResult(ServersFile), id)
              /\ (tasks[t].pc \in {"sw_find", "sw_r", "sw_w"} /\ tasks'[t].pc \in {"sw_c_find", "sw_c_r", "sw_c_w"}) =>
                     tasks'[t].pc = "sw_c_find" /\ tasks'[t].sid = sid
              /\ tasks'[t].pc \in {"sw_find", "sw_r", "sw_w", "sw_c_find", "sw_c_r", "sw_c_w", "swept"}
              /\ tasks'[t].pc = "swept" =>
                     \A id \in AllIds : activeClients'[id] # 0 => id \in tasks[t].seen]_vars

\* The sweep has marked SeedA Unknown after a failed store call and is at SeedB.
C23_MarkedAndWentOn ==
    \E t \in TaskIds :
        /\ tasks[t].op = "sweep" /\ tasks[t].sid = SeedB /\ tasks[t].seen = {SeedA, SeedB}
        /\ findById(ReadResult(ServersFile), SeedA).status = "Unknown"
        /\ activeClients[SeedA] # 0

\* C24: when a restart issues its probe the record, if there is one, has status
\* Searching, and a restart writes Connecting, Unsupported or ConnectFailed
\* only over Searching.
C24_RestartThroughSearching ==
    [][\A t \in TaskIds :
          LET old == findById(ReadResult(ServersFile), tasks[t].sid) IN
          /\ (tasks[t].op # "restart" /\ tasks'[t].op = "restart" /\ tasks'[t].pc = "bb_probe") =>
                 \A i \in 1..Len(ReadResult(ServersFile)) :
                     ReadResult(ServersFile)[i].id = tasks'[t].sid =>
                         disk'[ServersFile].data[i].status = "Searching"
          /\ (tasks[t].op = "restart" /\ tasks[t].pc \in {"bb_con_w", "bb_uns_w", "bb_fail_w"}
              /\ tasks[t].at = "io" /\ tasks'[t] # tasks[t] /\ old # NoServer) =>
                 old.status = "Searching"]_vars

\* ------------------------------------------------------------- properties of users, channels and the gate
\* C25: when ban, unban, add admin, remove admin or set_lang has completed for a
\* user, the status cache holds no unexpired entry for that user whose isBanned,
\* isAdmin or language differs from what the middleware would cache from the
\* stored record.
C25_StatusCacheFollowsStore ==
    [][\A t \in TaskIds :
          (tasks[t].at # "ret" /\ tasks'[t].at = "ret"
           /\ tasks'[t].op \in FlagOps \cup {"set_lang"} /\ tasks'[t].pc \in {"done", "lang_set"}) =>
              LET k == tasks'[t].uid
                  user == findOne(disk'[UsersFile].data, k)
                  e == userCache'[k] IN
              (user # NoUser /\ Fresh(e, now')) =>
                  /\ e.value.props = StatusOf(user).props
                  /\ e.value.isBanned = user.isBanned
                  /\ e.value.isAdmin = user.isAdmin
                  /\ e.value.language = StatusOf(user).language]_vars

\* C26: the step that completes a change of the required channels leaves the
\* membership cache empty, and no membership check writes an entry it computed
\* against a list of required channels other than the one config.json holds when
\* the entry is written.
C26_NoEntryAgainstOldList ==
    [][\A t \in TaskIds :
          /\ (tasks[t].op \in {"add_channel", "remove_channel"} /\ tasks[t].at # "ret"
              /\ tasks'[t].at = "ret") =>
                 \A k \in Keys : ~subscriptionCache'[k].has
          /\ (tasks[t].pc \in {"cs_member", "cs_reply"} /\ tasks[t].at = "net"
              /\ subscriptionCache'[tasks[t].uid].has) =>
                 tasks[t].chans = requiredChannels(ReadResult(ConfigFile))]_vars

C28_CatalogUnique ==
    /\ [](~Twice(ReadResult(VersionsFile)))
    /\ [][\A t \in TaskIds :
             (At(t, "vc_r") /\ tasks'[t] # tasks[t]
              /\ exists(ReadResult(VersionsFile), Version(tasks[t].kind, Stringify(tasks[t].proto)))) =>
                 /\ Returned(t, "add_version", "duplicate_11000")'
                 /\ disk' = disk]_vars

\* A store on which startup has nothing to do: <<users, config, versions>>.
Initialised(store) ==
    /\ findOne(store[1], ADMIN_ID) # NoUser /\ findOne(store[1], ADMIN_ID).isAdmin
    /\ \A i \in 1..Len(DefaultKeys) : Defined(store[2], DefaultKeys[i])
    /\ store[3] # <<>>

\* C30: when setupInitialConfig returns, the three files parse, the admin is in Users with isAdmin true,
\* every default key of the config is defined and the catalog is not empty; every
\* user and every config member the store held at the start is still there as it
\* was (but for the admin's isAdmin), a catalog that was not empty is as it was,
\* and a store that was initialised at the start is unchanged.
C30_StartupInitialises ==
    [][\A t \in TaskIds :
          (tasks[t].op = "setup" /\ tasks[t].at # "ret" /\ tasks'[t].at = "ret") =>
              LET old == tasks[t].snap
                  users == disk'[UsersFile].data
                  config == disk'[ConfigFile].data
                  versions == disk'[VersionsFile].data IN
              /\ \A f \in {UsersFile, ConfigFile, VersionsFile} : disk'[f].st = "ok"
              /\ Initialised(Stored')
              /\ Len(users) >= Len(old[1])
              /\ \A i \in 1..Len(old[1]) :
                    users[i] = IF old[1][i].userId = ADMIN_ID THEN [old[1][i] EXCEPT !.isAdmin = TRUE]
                               ELSE old[1][i]
              /\ Len(config) >= Len(old[2])
              /\ \A i \in 1..Len(old[2]) : config[i] = old[2][i]
              /\ old[3] # <<>> => versions = old[3]
              /\ Initialised(old) => Stored' = old /\ disk' = disk]_vars

\* The process was started again on the store an earlier startup had initialised,
\* and setupInitialConfig has returned.
C30_StartedAgain ==
    \E t \in TaskIds :
        /\ Returned(t, "setup", "launched")
        /\ Initialised(tasks[t].snap)
        /\ findOne(tasks[t].snap[1], UserA) # NoUser
        /\ Stored = tasks[t].snap

\* C29: an auto-restart resolves the probed protocol against the catalog as it is
\* when the restart begins: the protocols the restart will accept are those
\* versions.json names for bedrock at that time.
C29_RestartReadsCatalog ==
    [][\A t \in TaskIds :
          (tasks[t].op # "restart" /\ tasks'[t].op = "restart") =>
              tasks'[t].vers = getSupportedVersions(ReadResult(VersionsFile))]_vars

\* ------------------------------------------------------------- properties of C31..C38
\* C31: a user record that is in users.json is in users.json after every step.
C31_UsersStay ==
    [][\A k \in Keys :
          FindUser(ReadResult(UsersFile), k, 1) # 0 => FindUser(disk'[UsersFile].data, k, 1) # 0]_vars

\* User A was created beside user B, then banned, and chose a language.
C31_CreatedBannedRelanguaged ==
    LET users == ReadResult(UsersFile) IN
    /\ findOne(users, UserB) # NoUser
    /\ findOne(users, UserA) # NoUser
    /\ findOne(users, UserA).isBanned
    /\ findOne(users, UserA).language = Ar

\* C32: the step that deletes the session of an endpoint from activeClients is an
\* event of the connection the session holds, or a stop of the endpoint: the
\* connection is closed in that step.
C32_OwnEventsRemove ==
    [][\A sid \in AllIds :
          (activeClients[sid] # 0 /\ activeClients'[sid] = 0) =>
              conns'[activeClients[sid]] = NoConn]_vars

\* C33: a start attempt that was in flight when stop completed for its endpoint
\* (the endpoint is in stopped before and after the step, so no later start has
\* passed its presence check) registers no session and leaves the status Stopped.
C33_StopEndsTheAttempt ==
    [][\A t \in TaskIds :
          LET sid == tasks[t].sid
              old == findById(ReadResult(ServersFile), sid)
              new == findById(disk'[ServersFile].data, sid) IN
          (tasks[t].op = "start" /\ tasks'[t] # tasks[t] /\ sid \in stopped /\ sid \in stopped') =>
              /\ activeClients[sid] = 0 => activeClients'[sid] = 0
              /\ (old # NoServer /\ old.status = "Stopped" /\ new # NoServer) => new.status = "Stopped"]_vars

\* No operation, callback or restart of the session manager is in progress or
\* pending, and no connection is still waiting for its spawn event.
Quiet ==
    /\ timers = <<>>
    /\ \A t \in TaskIds : tasks[t].at \in {"idle", "ret"}
    /\ \A c \in ConnIds : conns[c].state # "open"

\* C34: whenever the session manager is quiet, an endpoint has status Connecting
\* or Active exactly if activeClients holds a session for it.
C34_StatusAgreesWithSession ==
    Quiet => \A sid \in AllIds :
                 LET s == findById(ReadResult(ServersFile), sid) IN
                 s # NoServer => (s.status \in {"Connecting", "Active"} <=> activeClients[sid] # 0)

\* C35: once every operation in flight has finished and no restart is pending,
\* an endpoint whose record is gone from servers.json has no session in
\* activeClients and no open watcher connection.
C35_SessionsHaveEndpoints ==
    (timers = <<>> /\ \A t \in TaskIds : tasks[t].at \in {"idle", "ret"}) =>
        \A sid \in usedIds :
            findById(ReadResult(ServersFile), sid) = NoServer =>
                /\ activeClients[sid] = 0
                /\ \A c \in ConnIds : conns[c].state # "none" => conns[c].sid # sid

\* The status middleware would let user k through from the cache (lines 1613-1634).
ServedNotBanned(k) == Fresh(userCache[k], now) /\ ~userCache[k].value.isBanned

\* C36: user A, banned in users.json since time 0, is denied at every time later
\* than one TTL after that: the status cache then holds no unexpired not-banned
\* entry for A that the middleware would serve.
C36_BanHoldsAfterTtl ==
    (now > TtlMs /\ findOne(ReadResult(UsersFile), UserA).isBanned) => ~ServedNotBanned(UserA)

\* C37: handleDisconnect runs at most once for a connection.  A handler starts only
\* in the step of the first event of a connection of its endpoint, and only one
\* starts; the second event of a connection starts no handler, writes no status and
\* schedules nothing; a restart is scheduled only by a handler passing line 808,
\* one timer at a time.
C37_HandledOnce ==
    [][/\ \A t \in TaskIds :
            (tasks[t].op # "disc" /\ tasks'[t].op = "disc") =>
                /\ \E c \in ConnIds : /\ conns[c].sid = tasks'[t].sid
                                      /\ conns[c].state \in {"open", "live"}
                                      /\ conns'[c].state = "lost"
                /\ \A u \in TaskIds \ {t} : tasks'[u] = tasks[u]
       /\ \A c \in ConnIds :
            (conns[c].state = "lost" /\ conns'[c] # conns[c]) =>
                /\ \A t \in TaskIds : tasks'[t].op = "disc" => tasks[t].op = "disc"
                /\ disk' = disk
                /\ Len(timers') <= Len(timers)
       /\ Len(timers') > Len(timers) =>
            /\ Len(timers') = Len(timers) + 1
            /\ \E t \in TaskIds : tasks[t].pc \in {"hd_rc_r", "hd_rc_w"} /\ tasks'[t].pc = "hd_user"]_vars

\* A connection of the endpoint has emitted both its events, its one handler has
\* returned and one restart is scheduled.
C37_BothEventsOneRestart ==
    /\ \A c \in ConnIds : conns[c].state = "none"
    /\ \E t \in TaskIds : Returned(t, "disc", "notified")
    /\ \A t \in TaskIds : tasks[t].at \in {"idle", "ret"}
    /\ Len(timers) = 1
    /\ activeClients[SeedA] = 0

\* The callers asleep in acquireLock(f).
Waiters(f) == {t \in TaskIds : tasks[t].at = "lock" /\ tasks[t].file = f}

\* A caller that waits for a lock holds none, a held lock has a holder whose fs
\* call is pending, and every held lock becomes free.
LocksAreReleased ==
    /\ [](\A f \in Files : dbLocks[f] => \E t \in TaskIds \ Waiters(f) : tasks[t].at = "io" /\ tasks[t].file = f)
    /\ \A f \in Files : dbLocks[f] ~> ~dbLocks[f]

\* C38: whenever callers wait for the lock of a table, one of them gets it:
\* if S is the set of callers asleep in acquireLock(f), some member of S leaves
\* the loop of lines 38-40.
C38_SomeWaiterAcquires ==
    \A f \in Files : \A S \in (SUBSET TaskIds) \ {{}} :
        (Waiters(f) = S) ~> (\E t \in S : tasks[t].at # "lock")

====
